---- MODULE Spec2Model ----
(***************************************************************************)
(* School transport payment ledger (pyro556/transport_system).             *)
(*                                                                         *)
(* The program is one interactive operator driving menu handlers over one  *)
(* SQLAlchemy session (autoflush off) bound to a SQLite database.  The     *)
(* model keeps the committed rows of every table, the uncommitted          *)
(* in-memory changes the session still holds, the last message a handler   *)
(* printed and whether the process is still running.  One action models    *)
(* one whole menu handler; its parameters are the operator's answers to    *)
(* the handler's prompts.                                                  *)
(*                                                                         *)
(* The database is SQLite with foreign-key enforcement left off (no        *)
(* PRAGMA is issued), so ON DELETE clauses are inert and every cascade or  *)
(* nullify effect is the ORM's unit of work, flushed by session.commit().  *)
(***************************************************************************)
EXTENDS Integers, FiniteSets, Sequences, TLC

VARIABLES
    years,       \* academic_years rows committed:  id -> record
    terms,       \* terms rows committed
    drivers,     \* drivers rows committed
    attendants,  \* attendants rows committed
    buses,       \* buses rows committed
    students,    \* students rows committed
    payments,    \* payments rows committed
    settings,    \* system_settings rows committed: id -> [key, value]
    sessBus,     \* Bus objects the session holds modified and unflushed: id -> record
    msg,         \* the last result message a handler printed
    running,     \* FALSE once an exception reached main() and the process exited
    out          \* what the last handler listed: bus rows, utilization, exported file

vars == <<years, terms, drivers, attendants, buses, students, payments, settings, sessBus,
          msg, running, out>>

store == <<years, terms, drivers, attendants, buses, students, payments, settings>>

-----------------------------------------------------------------------------
(* Bounds of the model: rows per table.                                    *)
MaxYears == 2
MaxTerms == 2
MaxDrivers == 2
MaxAttendants == 1
MaxBuses == 2
MaxStudents == 2
MaxPayments == 2

-----------------------------------------------------------------------------
(* Values.                                                                 *)

\* SQL NULL in an integer column (ids start at 1; a week number may be 0).
NULL == -1

\* Python None where a string is expected: get_valid_input's cancel result,
\* and a NULL string column.
NONE == "<None>"

\* Mapping of the week range CHECK constraint.
MinWeek == 1
MaxWeek == 20

Max(S) == CHOOSE x \in S : \A y \in S : y <= x

\* INTEGER PRIMARY KEY without AUTOINCREMENT: one more than the largest rowid.
NewId(table) == IF DOMAIN table = {} THEN 1 ELSE Max(DOMAIN table) + 1

Without(table, ids) == [i \in DOMAIN table \ ids |-> table[i]]

With(table, id, row) == [i \in DOMAIN table \cup {id} |-> IF i = id THEN row ELSE table[i]]

-----------------------------------------------------------------------------
(* Faulty variants of single rules, used to show that the properties stated *)
(* at the end depend on the rule they are about.                            *)

\* The balance taken the wrong way round: amount_paid - monthly_rate.
BalanceCarried_Swapped(monthly_rate, amount_paid) ==
    IF amount_paid - monthly_rate > 0 THEN amount_paid - monthly_rate ELSE 0

\* The duplicate lookup never finding a row.
ExistingPayment_Blind(s, t, w) == FALSE

\* The date test letting equal dates through.
DatesRefused_Strict(start_date, end_date) == end_date < start_date

\* Term.payments without its delete cascade.
PaymentsOfTerms_Kept(ts) == {}

\* Student.payments without its delete cascade.
PaymentsOfStudents_Kept(ss) == {}

\* `a or b` falling back on None only, so that a blank answer is kept as typed.
Or_NoneOnly(a, b) == IF a = NONE THEN b ELSE a

\* The balance of an updated payment recomputed whatever was answered.
RecalculatedBalance_Always(amount_in, payment, new_amount) ==
    LET monthly_rate == students[payment.student_id].monthly_rate
    IN  IF monthly_rate - new_amount > 0 THEN monthly_rate - new_amount ELSE 0

\* The report's utilization dividing without looking at the capacity first.
ReportUtilization_Unguarded(student_count, capacity) ==
    IF capacity = NULL \/ capacity = 0 THEN [raised |-> TRUE, value |-> 0]
    ELSE [raised |-> FALSE,
          value |-> (2000 * student_count + capacity) \div (2 * capacity)]

\* The export's utilization as a fraction, without the "* 100".
ExportUtilization_Fraction(student_count, capacity) ==
    IF capacity # NULL /\ capacity > 0
    THEN [raised |-> FALSE,
          value |-> (20 * student_count + capacity) \div (2 * capacity)]
    ELSE [raised |-> FALSE, value |-> 0]

\* The duplicate lookup comparing the week with "=", which no NULL satisfies.
ExistingPayment_WeeksOnly(s, t, w) ==
    /\ w # NULL
    /\ \E p \in DOMAIN payments :
          /\ payments[p].student_id = s
          /\ payments[p].term_id = t
          /\ payments[p].week_number = w

\* A student's total taken as the number of the student's payments.
TotalPayments_Counted(s) ==
    Cardinality({p \in DOMAIN payments : payments[p].student_id = s})

\* The settings lookup without its filter on the key.
SettingRows_Any(st, key) == DOMAIN st

\* The terms table without uq_term_name_year.
TermRowOk_NoUnique(ts, t) == ts[t].start_date < ts[t].end_date

\* The payments table without check_week_range.
PaymentRowOk_NoWeekCheck(ps, p) ==
    /\ \A o \in DOMAIN ps \ {p} :
          \/ ps[p].week_number = NULL
          \/ ps[o].student_id # ps[p].student_id
          \/ ps[o].term_id # ps[p].term_id
          \/ ps[o].week_number # ps[p].week_number
    /\ ps[p].amount_paid = NULL \/ ps[p].amount_paid >= 0
    /\ ps[p].balance_carried = NULL \/ ps[p].balance_carried >= 0

-----------------------------------------------------------------------------
(* utils/helpers.py                                                        *)

\* get_valid_input: the answer that ends the prompt loop.  'cancel' and 'exit'
\* give None; any other answer comes back as typed (the caller's guard states
\* that it passed the validation, an answer that fails it is asked again).
get_valid_input(answer) == IF answer \in {"cancel", "exit"} THEN NONE ELSE answer

\* Python's `a or b` on strings and None.
Or(a, b) == IF a = NONE \/ a = "" THEN b ELSE a

\* The float that is not a number: float("nan") gives it, every comparison
\* with it is false, and SQLite stores it as NULL.
NaN == -2

\* float(value) / int(value) of the answers the model draws.
FloatOf ==
    [value \in {"0", "25", "50", "60", "-5", "nan"} |->
        CASE value = "0" -> 0 [] value = "25" -> 25 [] value = "50" -> 50
          [] value = "60" -> 60 [] value = "-5" -> -5 [] value = "nan" -> NaN]

\* "x < 0" on floats.
BelowZero(x) == x # NaN /\ x < 0

\* A Float column as SQLite keeps it.
StoredFloat(x) == IF x = NaN THEN NULL ELSE x

IntOf ==
    [value \in {"0", "1", "2", "3", "20", "21", "40", "-3"} |->
        CASE value = "0" -> 0 [] value = "1" -> 1 [] value = "2" -> 2
          [] value = "3" -> 3 [] value = "20" -> 20 [] value = "21" -> 21
          [] value = "40" -> 40 [] value = "-3" -> -3]

is_numeric(value) == value \in DOMAIN FloatOf

is_non_negative_number(value) ==
    is_numeric(value) /\ FloatOf[value] # NaN /\ FloatOf[value] >= 0

is_integer(value) == value \in DOMAIN IntOf

is_non_negative_integer(value) == is_integer(value) /\ IntOf[value] >= 0

\* str.isdigit(): digits only, so no sign and not empty.
isdigit(value) == value \in DOMAIN IntOf /\ IntOf[value] >= 0

\* The dates the model draws, as day ordinals; strptime parses, str() prints.
DateOf ==
    [value \in {"2024-01-01", "2024-01-10", "2024-04-05", "2024-12-31"} |->
        CASE value = "2024-01-01" -> 1 [] value = "2024-01-10" -> 2
          [] value = "2024-04-05" -> 3 [] value = "2024-12-31" -> 4]

is_date(value) == value \in DOMAIN DateOf

strptime(value) == DateOf[value]

DateStr(d) == CHOOSE s \in DOMAIN DateOf : DateOf[s] = d

\* is_phone_number on the answers the model draws.
is_phone_number(value) == value \in {"0700123456", "0711122233"}

\* confirm_action: only the answer y confirms.
confirm_action(answer) == answer \in {"y", "Y"}

\* "x.isdigit() and int(x) in [row.id for row in rows]"
IsIdOf(answer, table) == isdigit(answer) /\ IntOf[answer] \in DOMAIN table

-----------------------------------------------------------------------------
(* The session.                                                            *)

\* A Bus as the session shows it: the modified object if it holds one.
MemBus(b) == IF b \in DOMAIN sessBus THEN sessBus[b] ELSE buses[b]

\* The session's modified Bus objects after bus b was given the values rec.
Dirty(pend, b, rec) ==
    IF rec = buses[b] THEN Without(pend, {b}) ELSE With(pend, b, rec)

\* UNIQUE(bus_name) and CHECK(capacity >= 0) on row b of bs.
BusRowOk(bs, b) ==
    /\ \A o \in DOMAIN bs \ {b} : bs[o].bus_name # bs[b].bus_name
    /\ bs[b].capacity >= 0

\* The UPDATE statements of a flush, one per modified Bus in primary-key order,
\* each checked by the database as it runs.  Gives the rows and whether every
\* statement passed.
RECURSIVE FlushBuses(_, _)
FlushBuses(bs, pend) ==
    IF DOMAIN pend = {} THEN [ok |-> TRUE, rows |-> bs]
    ELSE LET b == CHOOSE x \in DOMAIN pend : \A y \in DOMAIN pend : x <= y
             next == [bs EXCEPT ![b] = pend[b]]
         IN  IF b \in DOMAIN bs /\ BusRowOk(next, b)
             THEN FlushBuses(next, Without(pend, {b}))
             ELSE [ok |-> FALSE, rows |-> bs]

-----------------------------------------------------------------------------
\* clear_screen() at the start of every handler, and no file written by it.
NoOutput == [screen |-> << >>, file |-> << >>, rows |-> << >>, total |-> 0]

Init ==
    /\ years = << >>
    /\ terms = << >>
    /\ drivers = << >>
    /\ attendants = << >>
    /\ buses = << >>
    /\ students = << >>
    /\ payments = << >>
    /\ settings = << >>
    /\ sessBus = << >>
    /\ msg = ""
    /\ running = TRUE
    /\ out = NoOutput

\* A handler that returns without commit or rollback: nothing is written and
\* the session keeps what it held.
Return(m) ==
    /\ msg' = m
    /\ out' = NoOutput
    /\ UNCHANGED <<store, sessBus, running>>

\* session.rollback() in an except block: the transaction is undone and every
\* object expires, which discards the session's unflushed changes.
Rollback(m) ==
    /\ msg' = m
    /\ out' = NoOutput
    /\ sessBus' = << >>
    /\ UNCHANGED <<store, running>>

\* An exception no handler catches: main() prints it and exits; the open
\* transaction is never committed and the session ends with the process.
Fatal ==
    /\ msg' = "Fatal error"
    /\ out' = NoOutput
    /\ running' = FALSE
    /\ sessBus' = << >>
    /\ UNCHANGED store

\* session.commit() that succeeded: the rows as flushed become the store and
\* the session holds no modified object any more.
Commit(ys, ts, ds, as, bs, ss, ps, m) ==
    /\ years' = ys
    /\ terms' = ts
    /\ drivers' = ds
    /\ attendants' = as
    /\ buses' = bs
    /\ students' = ss
    /\ payments' = ps
    /\ sessBus' = << >>
    /\ msg' = m
    /\ out' = NoOutput
    /\ UNCHANGED <<settings, running>>

-----------------------------------------------------------------------------
(* menus/academic_years.py                                                 *)

\* UNIQUE(name) and CHECK(start_date < end_date) on row y of ys.
YearRowOk(ys, y) ==
    /\ \A o \in DOMAIN ys \ {y} : ys[o].name # ys[y].name
    /\ ys[y].start_date < ys[y].end_date

\* The handler's own test "if end_date <= start_date" that refuses the dates.
DatesRefused(start_date, end_date) == end_date <= start_date

add_academic_year(name_in, start_in, end_in) ==
    /\ running
    /\ name_in # ""
    /\ is_date(start_in) \/ get_valid_input(start_in) = NONE
    /\ is_date(end_in) \/ get_valid_input(end_in) = NONE
    /\ IF \/ get_valid_input(name_in) = NONE
          \/ get_valid_input(start_in) = NONE
          \/ get_valid_input(end_in) = NONE
       THEN Return("Operation cancelled.")
       ELSE IF DatesRefused(strptime(start_in), strptime(end_in))
       THEN Return("End date must be after start date.")
       ELSE LET y == NewId(years)
                ys == With(years, y, [name |-> name_in,
                                      start_date |-> strptime(start_in),
                                      end_date |-> strptime(end_in)])
                fb == FlushBuses(buses, sessBus)
            IN  /\ y <= MaxYears
                /\ IF fb.ok /\ YearRowOk(ys, y)
                   THEN Commit(ys, terms, drivers, attendants, fb.rows, students,
                               payments, "Academic year added successfully.")
                   ELSE Fatal

edit_academic_year(id_in, name_in, start_in, end_in) ==
    /\ running
    /\ IF years = << >>
       THEN Return("No academic years found.")
       ELSE
       /\ IsIdOf(id_in, years) \/ get_valid_input(id_in) = NONE
       /\ is_date(start_in) \/ get_valid_input(start_in) = NONE
       /\ is_date(end_in) \/ get_valid_input(end_in) = NONE
       /\ IF get_valid_input(id_in) = NONE
          THEN Return("Operation cancelled.")
          ELSE LET y == IntOf[id_in]
                   year == years[y]
                   new_name == Or(get_valid_input(name_in), year.name)
                   new_start == Or(get_valid_input(start_in), DateStr(year.start_date))
                   new_end == Or(get_valid_input(end_in), DateStr(year.end_date))
                   ys == [years EXCEPT ![y] = [name |-> new_name,
                                               start_date |-> strptime(new_start),
                                               end_date |-> strptime(new_end)]]
                   fb == FlushBuses(buses, sessBus)
               IN  IF DatesRefused(strptime(new_start), strptime(new_end))
                   THEN Return("End date must be after start date.")
                   ELSE IF fb.ok /\ YearRowOk(ys, y)
                   THEN Commit(ys, terms, drivers, attendants, fb.rows, students,
                               payments, "Academic year updated successfully.")
                   ELSE Fatal

\* cascade="all, delete-orphan" on AcademicYear.terms and on Term.payments:
\* the rows the unit of work deletes with the given years / terms / students.
TermsOfYears(ys) == {t \in DOMAIN terms : terms[t].academic_year_id \in ys}

PaymentsOfTerms(ts) == {p \in DOMAIN payments : payments[p].term_id \in ts}

PaymentsOfStudents(ss) == {p \in DOMAIN payments : payments[p].student_id \in ss}

delete_academic_year(id_in, confirm_in) ==
    /\ running
    /\ IF years = << >>
       THEN Return("No academic years available to delete.")
       ELSE
       /\ IsIdOf(id_in, years) \/ get_valid_input(id_in) = NONE
       /\ IF get_valid_input(id_in) = NONE
          THEN Return("Operation cancelled.")
          ELSE IF ~confirm_action(confirm_in)
          THEN Return("Deletion cancelled.")
          ELSE LET y == IntOf[id_in]
                   ts == TermsOfYears({y})
                   fb == FlushBuses(buses, sessBus)
               IN  IF fb.ok
                   THEN Commit(Without(years, {y}), Without(terms, ts), drivers,
                               attendants, fb.rows, students,
                               Without(payments, PaymentsOfTerms(ts)),
                               "Academic year deleted successfully.")
                   ELSE Fatal

-----------------------------------------------------------------------------
(* menus/terms.py                                                          *)

\* UNIQUE(name, academic_year_id) and CHECK(start_date < end_date) on row t.
TermRowOk(ts, t) ==
    /\ \A o \in DOMAIN ts \ {t} :
          ~(ts[o].name = ts[t].name /\ ts[o].academic_year_id = ts[t].academic_year_id)
    /\ ts[t].start_date < ts[t].end_date

add_term(year_in, name_in, start_in, end_in) ==
    /\ running
    /\ IF years = << >>
       THEN Return("No academic years found. Please add one first.")
       ELSE
       /\ IsIdOf(year_in, years) \/ get_valid_input(year_in) = NONE
       /\ name_in # ""
       /\ is_date(start_in) \/ get_valid_input(start_in) = NONE
       /\ is_date(end_in) \/ get_valid_input(end_in) = NONE
       /\ IF \/ get_valid_input(year_in) = NONE
             \/ get_valid_input(name_in) = NONE
             \/ get_valid_input(start_in) = NONE
             \/ get_valid_input(end_in) = NONE
          THEN Return("Operation cancelled.")
          ELSE IF DatesRefused(strptime(start_in), strptime(end_in))
          THEN Return("End date must be after start date.")
          ELSE LET t == NewId(terms)
                   ts == With(terms, t, [name |-> name_in,
                                         start_date |-> strptime(start_in),
                                         end_date |-> strptime(end_in),
                                         academic_year_id |-> IntOf[year_in]])
                   fb == FlushBuses(buses, sessBus)
               IN  /\ t <= MaxTerms
                   /\ IF fb.ok /\ TermRowOk(ts, t)
                      THEN Commit(years, ts, drivers, attendants, fb.rows, students,
                                  payments, "Term added successfully.")
                      ELSE Fatal

edit_term(id_in, name_in, start_in, end_in, reassign_in, year_in) ==
    /\ running
    /\ IF terms = << >>
       THEN Return("No terms available to edit.")
       ELSE
       /\ IsIdOf(id_in, terms) \/ get_valid_input(id_in) = NONE
       /\ is_date(start_in) \/ get_valid_input(start_in) = NONE
       /\ is_date(end_in) \/ get_valid_input(end_in) = NONE
       /\ reassign_in \in {"y", "n", ""} \/ get_valid_input(reassign_in) = NONE
       /\ IsIdOf(year_in, years) \/ get_valid_input(year_in) = NONE
       /\ IF get_valid_input(id_in) = NONE
          THEN Return("Operation cancelled.")
          ELSE LET t == IntOf[id_in]
                   term == terms[t]
                   new_name == Or(get_valid_input(name_in), term.name)
                   new_start == Or(get_valid_input(start_in), DateStr(term.start_date))
                   new_end == Or(get_valid_input(end_in), DateStr(term.end_date))
                   new_year == IF reassign_in = "y" THEN IntOf[year_in]
                               ELSE term.academic_year_id
                   ts == [terms EXCEPT ![t] = [name |-> new_name,
                                               start_date |-> strptime(new_start),
                                               end_date |-> strptime(new_end),
                                               academic_year_id |-> new_year]]
                   fb == FlushBuses(buses, sessBus)
               IN  IF DatesRefused(strptime(new_start), strptime(new_end))
                   THEN Return("End date must be after start date.")
                   ELSE IF \/ get_valid_input(reassign_in) = NONE
                           \/ reassign_in = "y" /\ get_valid_input(year_in) = NONE
                   THEN Return("Operation cancelled.")
                   ELSE IF fb.ok /\ TermRowOk(ts, t)
                   THEN Commit(years, ts, drivers, attendants, fb.rows, students,
                               payments, "Term updated successfully.")
                   ELSE Fatal

delete_term(id_in, confirm_in) ==
    /\ running
    /\ IF terms = << >>
       THEN Return("No terms available to delete.")
       ELSE
       /\ IsIdOf(id_in, terms) \/ get_valid_input(id_in) = NONE
       /\ IF get_valid_input(id_in) = NONE
          THEN Return("Operation cancelled.")
          ELSE IF ~confirm_action(confirm_in)
          THEN Return("Deletion cancelled.")
          ELSE LET t == IntOf[id_in]
                   fb == FlushBuses(buses, sessBus)
               IN  IF fb.ok
                   THEN Commit(years, Without(terms, {t}), drivers, attendants,
                               fb.rows, students,
                               Without(payments, PaymentsOfTerms({t})),
                               "Term deleted successfully.")
                   ELSE Fatal

-----------------------------------------------------------------------------
(* menus/drivers.py and menus/attendants.py                                *)

\* UNIQUE(license_number) on row d of ds (NULLs never collide).
DriverRowOk(ds, d) ==
    \A o \in DOMAIN ds \ {d} :
        ds[d].license_number = NONE \/ ds[o].license_number # ds[d].license_number

add_driver(name_in, phone_in, license_in) ==
    /\ running
    /\ name_in # ""
    /\ is_phone_number(phone_in) \/ get_valid_input(phone_in) = NONE
    /\ license_in # ""
    /\ IF \/ get_valid_input(name_in) = NONE
          \/ get_valid_input(phone_in) = NONE
          \/ get_valid_input(license_in) = NONE
       THEN Return("Operation cancelled.")
       ELSE LET d == NewId(drivers)
                ds == With(drivers, d, [name |-> name_in, phone |-> phone_in,
                                        license_number |-> license_in,
                                        assigned |-> FALSE])
                fb == FlushBuses(buses, sessBus)
            IN  /\ d <= MaxDrivers
                /\ IF fb.ok /\ DriverRowOk(ds, d)
                   THEN Commit(years, terms, ds, attendants, fb.rows, students,
                               payments, "Driver added successfully!")
                   ELSE Rollback("Error adding driver")

update_driver(id_in, name_in, phone_in, license_in) ==
    /\ running
    /\ IF drivers = << >>
       THEN Return("No drivers found.")
       ELSE
       /\ IsIdOf(id_in, drivers) \/ get_valid_input(id_in) = NONE
       /\ is_phone_number(phone_in) \/ get_valid_input(phone_in) = NONE
       /\ IF get_valid_input(id_in) = NONE
          THEN Return("Operation cancelled.")
          ELSE LET d == IntOf[id_in]
                   driver == drivers[d]
                   new_name == Or(get_valid_input(name_in), driver.name)
                   new_phone == Or(get_valid_input(phone_in), driver.phone)
                   new_license == Or(get_valid_input(license_in), driver.license_number)
                   ds == [drivers EXCEPT ![d] = [name |-> new_name, phone |-> new_phone,
                                                 license_number |-> new_license,
                                                 assigned |-> driver.assigned]]
                   fb == FlushBuses(buses, sessBus)
               IN  IF new_name = NONE \/ new_phone = NONE \/ new_license = NONE
                   THEN Return("Operation cancelled.")
                   ELSE IF fb.ok /\ DriverRowOk(ds, d)
                   THEN Commit(years, terms, ds, attendants, fb.rows, students,
                               payments, "Driver updated successfully!")
                   ELSE Rollback("Error updating driver")

\* Driver.buses carries no delete cascade: the unit of work that deletes
\* driver d clears driver_id on the Buses it finds unchanged in d.buses, the
\* rows that reference d and whose Bus object was not given another driver.
\* A Bus object that was reassigned to d in the session and not yet flushed is
\* in the added part of d.buses, which the delete does not touch: its own
\* flush writes driver_id = d.
BusesAfterDriverDelete(d) ==
    LET rec(b) == IF MemBus(b).driver_id = d /\ buses[b].driver_id = d
                  THEN [MemBus(b) EXCEPT !.driver_id = NULL]
                  ELSE MemBus(b)
    IN  [b \in {x \in DOMAIN buses : rec(x) # buses[x]} |-> rec(b)]

delete_driver(id_in, confirm_in) ==
    /\ running
    /\ IF drivers = << >>
       THEN Return("No drivers found.")
       ELSE
       /\ IsIdOf(id_in, drivers) \/ get_valid_input(id_in) = NONE
       /\ IF get_valid_input(id_in) = NONE
          THEN Return("Operation cancelled.")
          ELSE IF ~confirm_action(confirm_in)
          THEN Return("Deletion cancelled.")
          ELSE LET d == IntOf[id_in]
                   fb == FlushBuses(buses, BusesAfterDriverDelete(d))
               IN  IF fb.ok
                   THEN Commit(years, terms, Without(drivers, {d}), attendants,
                               fb.rows, students, payments,
                               "Driver deleted successfully.")
                   ELSE Rollback("Error deleting driver")

add_attendant(name_in, phone_in) ==
    /\ running
    /\ name_in # ""
    /\ is_phone_number(phone_in) \/ get_valid_input(phone_in) = NONE
    /\ IF get_valid_input(name_in) = NONE \/ get_valid_input(phone_in) = NONE
       THEN Return("Operation cancelled.")
       ELSE LET a == NewId(attendants)
                as == With(attendants, a, [name |-> name_in, phone |-> phone_in])
                fb == FlushBuses(buses, sessBus)
            IN  /\ a <= MaxAttendants
                /\ IF fb.ok
                   THEN Commit(years, terms, drivers, as, fb.rows, students,
                               payments, "Attendant added successfully!")
                   ELSE Rollback("Error adding attendant")

update_attendant(id_in, name_in, phone_in) ==
    /\ running
    /\ IF attendants = << >>
       THEN Return("No attendants found.")
       ELSE
       /\ IsIdOf(id_in, attendants) \/ get_valid_input(id_in) = NONE
       /\ is_phone_number(phone_in) \/ get_valid_input(phone_in) = NONE
       /\ IF get_valid_input(id_in) = NONE
          THEN Return("Operation cancelled.")
          ELSE LET a == IntOf[id_in]
                   attendant == attendants[a]
                   new_name == Or(get_valid_input(name_in), attendant.name)
                   new_phone == Or(get_valid_input(phone_in), attendant.phone)
                   as == [attendants EXCEPT ![a] = [name |-> new_name,
                                                    phone |-> new_phone]]
                   fb == FlushBuses(buses, sessBus)
               IN  IF new_name = NONE \/ new_phone = NONE
                   THEN Return("Operation cancelled.")
                   ELSE IF fb.ok
                   THEN Commit(years, terms, drivers, as, fb.rows, students,
                               payments, "Attendant updated successfully!")
                   ELSE Rollback("Error updating attendant")

\* The same for Attendant.buses.
BusesAfterAttendantDelete(a) ==
    LET rec(b) == IF MemBus(b).attendant_id = a /\ buses[b].attendant_id = a
                  THEN [MemBus(b) EXCEPT !.attendant_id = NULL]
                  ELSE MemBus(b)
    IN  [b \in {x \in DOMAIN buses : rec(x) # buses[x]} |-> rec(b)]

delete_attendant(id_in, confirm_in) ==
    /\ running
    /\ IF attendants = << >>
       THEN Return("No attendants found.")
       ELSE
       /\ IsIdOf(id_in, attendants) \/ get_valid_input(id_in) = NONE
       /\ IF get_valid_input(id_in) = NONE
          THEN Return("Operation cancelled.")
          ELSE IF ~confirm_action(confirm_in)
          THEN Return("Deletion cancelled.")
          ELSE LET a == IntOf[id_in]
                   fb == FlushBuses(buses, BusesAfterAttendantDelete(a))
               IN  IF fb.ok
                   THEN Commit(years, terms, drivers, Without(attendants, {a}),
                               fb.rows, students, payments,
                               "Attendant deleted successfully.")
                   ELSE Rollback("Error deleting attendant")

-----------------------------------------------------------------------------
(* menus/buses.py                                                          *)

add_bus(name_in, cap_in, driver_in, att_in) ==
    /\ running
    /\ name_in # ""
    /\ is_non_negative_integer(cap_in) \/ get_valid_input(cap_in) = NONE
    /\ driver_in = "" \/ IsIdOf(driver_in, drivers) \/ get_valid_input(driver_in) = NONE
    /\ att_in = "" \/ IsIdOf(att_in, attendants) \/ get_valid_input(att_in) = NONE
    /\ IF \/ get_valid_input(name_in) = NONE
          \/ get_valid_input(cap_in) = NONE
          \/ drivers # << >> /\ get_valid_input(driver_in) = NONE
          \/ attendants # << >> /\ get_valid_input(att_in) = NONE
       THEN Return("Operation cancelled.")
       ELSE LET b == NewId(buses)
                driver == IF drivers = << >> \/ driver_in = "" THEN NULL
                          ELSE IntOf[driver_in]
                attendant == IF attendants = << >> \/ att_in = "" THEN NULL
                             ELSE IntOf[att_in]
                fb == FlushBuses(buses, sessBus)
                bs == With(fb.rows, b, [bus_name |-> name_in,
                                        capacity |-> IntOf[cap_in],
                                        driver_id |-> driver,
                                        attendant_id |-> attendant])
            IN  /\ b <= MaxBuses
                /\ IF fb.ok /\ BusRowOk(bs, b)
                   THEN Commit(years, terms, drivers, attendants, bs, students,
                               payments, "Bus added successfully!")
                   ELSE Rollback("Error adding bus")

\* update_bus writes the new name and capacity on the Bus object before it
\* asks for the driver and the attendant; a cancel at either of these prompts
\* returns from inside the try block, with no commit and no rollback.
update_bus(id_in, name_in, cap_in, driver_in, att_in) ==
    /\ running
    /\ IF buses = << >>
       THEN Return("No buses found.")
       ELSE
       /\ IsIdOf(id_in, buses) \/ get_valid_input(id_in) = NONE
       /\ is_non_negative_integer(cap_in) \/ get_valid_input(cap_in) = NONE
       /\ driver_in = "" \/ IsIdOf(driver_in, drivers) \/ get_valid_input(driver_in) = NONE
       /\ att_in = "" \/ IsIdOf(att_in, attendants) \/ get_valid_input(att_in) = NONE
       /\ IF get_valid_input(id_in) = NONE
          THEN Return("Operation cancelled.")
          ELSE LET b == IntOf[id_in]
                   bus == MemBus(b)
                   new_name == Or(get_valid_input(name_in), bus.bus_name)
                   named == [bus EXCEPT !.bus_name = new_name,
                                        !.capacity = IntOf[cap_in]]
                   driven == IF drivers = << >> \/ driver_in = "" THEN named
                             ELSE [named EXCEPT !.driver_id = IntOf[driver_in]]
                   attended == IF attendants = << >> \/ att_in = "" THEN driven
                               ELSE [driven EXCEPT !.attendant_id = IntOf[att_in]]
                   fb == FlushBuses(buses, Dirty(sessBus, b, attended))
               IN  IF new_name = NONE \/ get_valid_input(cap_in) = NONE
                   THEN Return("Operation cancelled.")
                   ELSE IF drivers # << >> /\ get_valid_input(driver_in) = NONE
                   THEN /\ msg' = "Operation cancelled."
                        /\ out' = NoOutput
                        /\ sessBus' = Dirty(sessBus, b, named)
                        /\ UNCHANGED <<store, running>>
                   ELSE IF attendants # << >> /\ get_valid_input(att_in) = NONE
                   THEN /\ msg' = "Operation cancelled."
                        /\ out' = NoOutput
                        /\ sessBus' = Dirty(sessBus, b, driven)
                        /\ UNCHANGED <<store, running>>
                   ELSE IF fb.ok
                   THEN Commit(years, terms, drivers, attendants, fb.rows, students,
                               payments, "Bus updated successfully!")
                   ELSE Rollback("Error updating bus")

\* Bus.students carries no delete cascade: deleting bus b clears bus_id on the
\* students that reference it.
StudentsAfterBusDelete(b) ==
    [s \in DOMAIN students |->
        IF students[s].bus_id = b THEN [students[s] EXCEPT !.bus_id = NULL]
        ELSE students[s]]

delete_bus(id_in, confirm_in) ==
    /\ running
    /\ IF buses = << >>
       THEN Return("No buses found.")
       ELSE
       /\ IsIdOf(id_in, buses) \/ get_valid_input(id_in) = NONE
       /\ IF get_valid_input(id_in) = NONE
          THEN Return("Operation cancelled.")
          ELSE IF ~confirm_action(confirm_in)
          THEN Return("Deletion cancelled.")
          ELSE LET b == IntOf[id_in]
                   fb == FlushBuses(buses, Without(sessBus, {b}))
               IN  IF fb.ok
                   THEN Commit(years, terms, drivers, attendants,
                               Without(fb.rows, {b}), StudentsAfterBusDelete(b),
                               payments, "Bus deleted successfully.")
                   ELSE Rollback("Error deleting bus")

-----------------------------------------------------------------------------
(* menus/students.py                                                       *)

\* CHECK(monthly_rate >= 0) on row s.
StudentRowOk(ss, s) == ss[s].monthly_rate >= 0

add_student(name_in, contact_in, address_in, rate_in, bus_in) ==
    /\ running
    /\ name_in # ""
    /\ contact_in = "" \/ is_phone_number(contact_in) \/ get_valid_input(contact_in) = NONE
    /\ is_non_negative_number(rate_in) \/ get_valid_input(rate_in) = NONE
    /\ bus_in = "" \/ IsIdOf(bus_in, buses) \/ get_valid_input(bus_in) = NONE
    /\ IF \/ get_valid_input(name_in) = NONE
          \/ get_valid_input(contact_in) = NONE
          \/ get_valid_input(address_in) = NONE
          \/ get_valid_input(rate_in) = NONE
       THEN Return("Operation cancelled.")
       ELSE IF buses = << >>
       THEN Return("No buses available. Add a bus first.")
       ELSE IF get_valid_input(bus_in) = NONE
       THEN Return("Operation cancelled.")
       ELSE LET s == NewId(students)
                ss == With(students, s,
                           [name |-> name_in,
                            parent_contact |-> Or(contact_in, NONE),
                            address |-> Or(address_in, NONE),
                            bus_id |-> IF bus_in = "" THEN NULL ELSE IntOf[bus_in],
                            monthly_rate |-> FloatOf[rate_in]])
                fb == FlushBuses(buses, sessBus)
            IN  /\ s <= MaxStudents
                /\ IF fb.ok /\ StudentRowOk(ss, s)
                   THEN Commit(years, terms, drivers, attendants, fb.rows, ss,
                               payments, "Student added successfully.")
                   ELSE Rollback("Error adding student")

update_student(id_in, name_in, contact_in, address_in, rate_in, bus_in) ==
    /\ running
    /\ IF students = << >>
       THEN Return("No students available.")
       ELSE
       /\ IsIdOf(id_in, students) \/ get_valid_input(id_in) = NONE
       /\ contact_in = "" \/ is_phone_number(contact_in) \/ get_valid_input(contact_in) = NONE
       /\ is_non_negative_number(rate_in) \/ get_valid_input(rate_in) = NONE
       /\ bus_in = "" \/ IsIdOf(bus_in, buses) \/ get_valid_input(bus_in) = NONE
       /\ IF get_valid_input(id_in) = NONE
          THEN Return("Operation cancelled.")
          ELSE LET s == IntOf[id_in]
                   student == students[s]
                   new_name == Or(get_valid_input(name_in), student.name)
                   new_contact == Or(get_valid_input(contact_in), student.parent_contact)
                   new_address == Or(get_valid_input(address_in), student.address)
                   ss == [students EXCEPT ![s] =
                            [name |-> new_name,
                             parent_contact |-> new_contact,
                             address |-> new_address,
                             bus_id |-> IF bus_in = "" THEN student.bus_id
                                        ELSE IntOf[bus_in],
                             monthly_rate |-> FloatOf[rate_in]]]
                   fb == FlushBuses(buses, sessBus)
               IN  IF \/ new_name = NONE
                      \/ new_contact = NONE
                      \/ new_address = NONE
                      \/ get_valid_input(rate_in) = NONE
                      \/ get_valid_input(bus_in) = NONE
                   THEN Return("Operation cancelled.")
                   ELSE IF fb.ok /\ StudentRowOk(ss, s)
                   THEN Commit(years, terms, drivers, attendants, fb.rows, ss,
                               payments, "Student updated successfully.")
                   ELSE Rollback("Error updating student")

delete_student(id_in, confirm_in) ==
    /\ running
    /\ IF students = << >>
       THEN Return("No students to delete.")
       ELSE
       /\ IsIdOf(id_in, students) \/ get_valid_input(id_in) = NONE
       /\ IF get_valid_input(id_in) = NONE
          THEN Return("Operation cancelled.")
          ELSE IF ~confirm_action(confirm_in)
          THEN Return("Deletion cancelled.")
          ELSE LET s == IntOf[id_in]
                   fb == FlushBuses(buses, sessBus)
               IN  IF fb.ok
                   THEN Commit(years, terms, drivers, attendants, fb.rows,
                               Without(students, {s}),
                               Without(payments, PaymentsOfStudents({s})),
                               "Student deleted successfully.")
                   ELSE Rollback("Error deleting student")

-----------------------------------------------------------------------------
(* menus/payments.py                                                       *)

\* payment_date: Column(Date, default=date.today), the day the model runs on.
Today == DateOf["2024-01-10"]

\* balance_carried = max(0, student.monthly_rate - amount_paid)
BalanceCarried(monthly_rate, amount_paid) ==
    IF amount_paid # NaN /\ monthly_rate - amount_paid > 0
    THEN monthly_rate - amount_paid ELSE 0

\* "int(week_input) if week_input and week_input.isdigit() else None"
WeekNumber(week_in) == IF week_in # "" /\ isdigit(week_in) THEN IntOf[week_in] ELSE NULL

\* "if week_number and (week_number < 1 or week_number > 20)"
WeekRefused(week_number) ==
    /\ week_number # NULL
    /\ week_number # 0
    /\ week_number < MinWeek \/ week_number > MaxWeek

\* filter_by(student_id=, term_id=, week_number=).first(): None compares IS NULL.
ExistingPayment(s, t, w) ==
    \E p \in DOMAIN payments :
        /\ payments[p].student_id = s
        /\ payments[p].term_id = t
        /\ payments[p].week_number = w

\* uq_payment_unique (NULL week numbers never collide) and the three CHECKs
\* (a CHECK over a NULL column passes).
PaymentRowOk(ps, p) ==
    /\ \A o \in DOMAIN ps \ {p} :
          \/ ps[p].week_number = NULL
          \/ ps[o].student_id # ps[p].student_id
          \/ ps[o].term_id # ps[p].term_id
          \/ ps[o].week_number # ps[p].week_number
    /\ ps[p].amount_paid = NULL \/ ps[p].amount_paid >= 0
    /\ ps[p].balance_carried = NULL \/ ps[p].balance_carried >= 0
    /\ ps[p].week_number = NULL
         \/ (ps[p].week_number >= MinWeek /\ ps[p].week_number <= MaxWeek)

add_payment(student_in, term_in, week_in, amount_in) ==
    /\ running
    /\ IF students = << >>
       THEN Return("No students available. Add students first.")
       ELSE IF ~is_integer(student_in)
       THEN Return("Invalid Student ID.")
       ELSE IF IntOf[student_in] \notin DOMAIN students
       THEN Return("Student not found.")
       ELSE IF terms = << >>
       THEN Return("No terms available. Add terms first.")
       ELSE IF ~is_integer(term_in)
       THEN Return("Invalid Term ID.")
       ELSE IF IntOf[term_in] \notin DOMAIN terms
       THEN Return("Term not found.")
       ELSE IF WeekRefused(WeekNumber(week_in))
       THEN Return("Week number must be between 1 and 20.")
       ELSE IF ExistingPayment(IntOf[student_in], IntOf[term_in], WeekNumber(week_in))
       THEN Return("A payment for this student, term, and week already exists.")
       ELSE IF ~is_numeric(amount_in) \/ BelowZero(FloatOf[amount_in])
       THEN Return("Amount must be a non-negative number.")
       ELSE LET p == NewId(payments)
                student == students[IntOf[student_in]]
                ps == With(payments, p,
                           [student_id |-> IntOf[student_in],
                            term_id |-> IntOf[term_in],
                            week_number |-> WeekNumber(week_in),
                            payment_date |-> Today,
                            amount_paid |-> StoredFloat(FloatOf[amount_in]),
                            balance_carried |->
                                BalanceCarried(student.monthly_rate, FloatOf[amount_in])])
                fb == FlushBuses(buses, sessBus)
            IN  /\ p <= MaxPayments
                /\ IF fb.ok /\ PaymentRowOk(ps, p)
                   THEN Commit(years, terms, drivers, attendants, fb.rows, students,
                               ps, "Payment added successfully!")
                   ELSE Rollback("Error adding payment")

\* "if amount_input: payment.balance_carried = max(0, rate - new_amount)"
RecalculatedBalance(amount_in, payment, new_amount) ==
    IF amount_in # ""
    THEN BalanceCarried(students[payment.student_id].monthly_rate, new_amount)
    ELSE payment.balance_carried

\* session.query(Payment).join(Student).join(Term).all()
JoinedPayments ==
    {p \in DOMAIN payments : /\ payments[p].student_id \in DOMAIN students
                             /\ payments[p].term_id \in DOMAIN terms}

\* The selection list prints "{p.amount_paid:.2f}": a None raises TypeError.
ListingFails == \E p \in JoinedPayments : payments[p].amount_paid = NULL

update_payment(id_in, amount_in) ==
    /\ running
    /\ IF JoinedPayments = {}
       THEN Return("No payments found.")
       ELSE IF ListingFails
       THEN Fatal
       ELSE IF ~is_integer(id_in)
       THEN Return("Invalid Payment ID.")
       ELSE IF IntOf[id_in] \notin DOMAIN payments
       THEN Return("Payment not found.")
       ELSE IF amount_in # "" /\ (~is_numeric(amount_in) \/ BelowZero(FloatOf[amount_in]))
       THEN Return("Amount must be a non-negative number.")
       ELSE LET p == IntOf[id_in]
                payment == payments[p]
                new_amount == IF amount_in # "" THEN FloatOf[amount_in]
                              ELSE payment.amount_paid
                balance == RecalculatedBalance(amount_in, payment, new_amount)
                ps == [payments EXCEPT ![p] = [payment EXCEPT
                                                 !.amount_paid = StoredFloat(new_amount),
                                                 !.balance_carried = balance]]
                fb == FlushBuses(buses, sessBus)
            IN  IF amount_in # "" /\ payment.student_id \notin DOMAIN students
                THEN Fatal
                ELSE IF fb.ok /\ PaymentRowOk(ps, p)
                THEN Commit(years, terms, drivers, attendants, fb.rows, students,
                            ps, "Payment updated successfully!")
                ELSE Rollback("Error updating payment")

\* "confirm = input(...).strip().upper()" compared with "DELETE"
ConfirmsDelete(answer) == answer \in {"DELETE", "delete", "Delete"}

delete_payment(id_in, confirm_in) ==
    /\ running
    /\ IF JoinedPayments = {}
       THEN Return("No payments found.")
       ELSE IF ListingFails
       THEN Fatal
       ELSE IF ~is_integer(id_in)
       THEN Return("Invalid Payment ID.")
       ELSE IF IntOf[id_in] \notin DOMAIN payments
       THEN Return("Payment not found.")
       ELSE IF payments[IntOf[id_in]].student_id \notin DOMAIN students
       THEN Fatal
       ELSE IF ~ConfirmsDelete(confirm_in)
       THEN Return("Operation cancelled.")
       ELSE LET fb == FlushBuses(buses, sessBus)
            IN  IF fb.ok
                THEN Commit(years, terms, drivers, attendants, fb.rows, students,
                            Without(payments, {IntOf[id_in]}),
                            "Payment deleted successfully.")
                ELSE Rollback("Error deleting payment")

-----------------------------------------------------------------------------
(* menus/settings.py                                                       *)

\* str(value) of the values set_setting is called with: a float prints with
\* its fraction, a string is itself.
FloatStr ==
    [x \in {0, 25, 50, 60, NaN} |->
        CASE x = 0 -> "0.0" [] x = 25 -> "25.0" [] x = 50 -> "50.0"
          [] x = 60 -> "60.0" [] x = NaN -> "nan"]

Str(value) == IF "float" \in DOMAIN value THEN FloatStr[value.float] ELSE value.str

\* session.query(SystemSetting).filter_by(key=key)
SettingRows(st, key) == {i \in DOMAIN st : st[i].key = key}

\* .first(): the matching row with the lowest id, or None.
First(rows) == IF rows = {} THEN NULL ELSE CHOOSE i \in rows : \A j \in rows : i <= j

\* "return setting.value if setting else default"
get_setting(key, default) ==
    LET setting == First(SettingRows(settings, key))
    IN  IF setting # NULL THEN settings[setting].value ELSE default

\* The table set_setting commits: the row of the key gets str(value), or a new
\* row is added when the key has none.
set_setting(st, key, value) ==
    LET setting == First(SettingRows(st, key))
    IN  IF setting # NULL
        THEN [st EXCEPT ![setting].value = Str(value)]
        ELSE With(st, NewId(st), [key |-> key, value |-> Str(value)])

\* The session.commit() of set_setting: it also flushes what the session held
\* modified, and nothing catches a failure of that flush.
CommitSetting(key, value, m) ==
    LET fb == FlushBuses(buses, sessBus)
    IN  IF fb.ok
        THEN /\ settings' = set_setting(settings, key, value)
             /\ buses' = fb.rows
             /\ sessBus' = << >>
             /\ msg' = m
             /\ UNCHANGED <<years, terms, drivers, attendants, students, payments, running>>
        ELSE /\ msg' = "Fatal error"
             /\ running' = FALSE
             /\ sessBus' = << >>
             /\ UNCHANGED store

\* value.lower() of the stored flags.
Lower(value) ==
    CASE value = "TRUE" -> "true" [] value = "False" -> "false" [] OTHER -> value

\* One pass of the configure_system_settings loop: the three settings are
\* read and shown, then the chosen option runs.
configure_system_settings(choice_in, answer_in) ==
    /\ running
    /\ choice_in \in {"1", "2", "3", "9"}
    /\ out' = [NoOutput EXCEPT !.screen =
                  <<get_setting("default_monthly_rate", "Not set"),
                    get_setting("csv_export_path", "Not set"),
                    IF Lower(get_setting("day_detection_enabled", "true")) = "true"
                    THEN "Enabled" ELSE "Disabled">>]
    /\ IF choice_in = "1"
       THEN IF ~is_numeric(answer_in)
            THEN /\ msg' = "Invalid input. Please enter a number."
                 /\ UNCHANGED <<store, sessBus, running>>
            ELSE IF BelowZero(FloatOf[answer_in])
            THEN /\ msg' = "Rate cannot be negative."
                 /\ UNCHANGED <<store, sessBus, running>>
            ELSE CommitSetting("default_monthly_rate", [float |-> FloatOf[answer_in]],
                               "Default monthly rate updated successfully.")
       ELSE IF choice_in = "2"
       THEN IF answer_in = ""
            THEN /\ msg' = "Path cannot be empty."
                 /\ UNCHANGED <<store, sessBus, running>>
            ELSE CommitSetting("csv_export_path", [str |-> answer_in],
                               "CSV export path updated successfully.")
       ELSE IF choice_in = "3"
       THEN IF answer_in \in {"y", "Y"}
            THEN CommitSetting("day_detection_enabled", [str |-> "true"],
                               "Day detection enabled.")
            ELSE IF answer_in \in {"n", "N"}
            THEN CommitSetting("day_detection_enabled", [str |-> "false"],
                               "Day detection disabled.")
            ELSE /\ msg' = "Invalid choice."
                 /\ UNCHANGED <<store, sessBus, running>>
       ELSE /\ msg' = "Invalid choice."
            /\ UNCHANGED <<store, sessBus, running>>

\* A faulty variant of the check below: "current_date >= last_run_date".
check_day_passed_Inclusive(today) ==
    LET last_run_str == get_setting("last_run_date", NONE)
        reset == set_setting(settings, "last_run_date", [str |-> DateStr(today)])
    IN  IF last_run_str = NONE \/ last_run_str = "" \/ ~is_date(last_run_str)
        THEN [returned |-> FALSE, settings |-> reset]
        ELSE IF today >= strptime(last_run_str)
        THEN [returned |-> TRUE, settings |-> reset]
        ELSE [returned |-> FALSE, settings |-> settings]

\* check_day_passed: what it returns and the table it leaves.
check_day_passed(today) ==
    LET last_run_str == get_setting("last_run_date", NONE)
        reset == set_setting(settings, "last_run_date", [str |-> DateStr(today)])
    IN  IF last_run_str = NONE \/ last_run_str = ""
        THEN [returned |-> FALSE, settings |-> reset]
        ELSE IF ~is_date(last_run_str)
        THEN [returned |-> FALSE, settings |-> reset]
        ELSE IF today > strptime(last_run_str)
        THEN [returned |-> TRUE, settings |-> reset]
        ELSE [returned |-> FALSE, settings |-> settings]

\* display_day_passed_notification: check_day_passed runs only when the
\* feature is enabled.
display_day_passed_notification(today) ==
    IF Lower(get_setting("day_detection_enabled", "true")) = "true"
    THEN check_day_passed(today)
    ELSE [returned |-> FALSE, settings |-> settings]

\* main(): the program is started on the database file it finds, with a new
\* session; the notification runs once, then the main menu is shown.
main(today) ==
    /\ ~running
    /\ running' = TRUE
    /\ sessBus' = << >>
    /\ settings' = display_day_passed_notification(today).settings
    /\ msg' = IF display_day_passed_notification(today).returned
              THEN "=== Day Passed Notification ==="
              ELSE "=== SCHOOL TRANSPORT MANAGEMENT SYSTEM ==="
    /\ out' = NoOutput
    /\ UNCHANGED <<years, terms, drivers, attendants, buses, students, payments>>

\* Option 10 of the main menu: the loop ends and the process exits; what the
\* session held uncommitted goes with it.
exit_program ==
    /\ running
    /\ running' = FALSE
    /\ sessBus' = << >>
    /\ msg' = "Goodbye!"
    /\ out' = NoOutput
    /\ UNCHANGED store

\* The settings initialize_demo_data sets after adding the demo rows.
DemoSettings ==
    set_setting(set_setting(set_setting(<< >>,
        "default_monthly_rate", [float |-> 50]),
        "csv_export_path", [str |-> "exports/"]),
        "day_detection_enabled", [str |-> "true"])

\* "confirm = input(...).strip().upper()" compared with "WIPE" and with "YES".
ConfirmsWipe(answer) == answer \in {"WIPE", "wipe", "Wipe"}

ConfirmsDemo(answer) == answer \in {"YES", "yes", "Yes"}

\* Base.metadata.drop_all(engine); create_all_tables(engine): every table is
\* empty again.  The statements run on the engine, the session is not touched.
wipe_all_data(confirm_in) ==
    /\ running
    /\ IF ~ConfirmsWipe(confirm_in)
       THEN Return("Operation cancelled. No data deleted.")
       ELSE /\ years' = << >>
            /\ terms' = << >>
            /\ drivers' = << >>
            /\ attendants' = << >>
            /\ buses' = << >>
            /\ students' = << >>
            /\ payments' = << >>
            /\ settings' = << >>
            /\ msg' = "All data cleared successfully."
            /\ out' = NoOutput
            /\ UNCHANGED <<sessBus, running>>

\* The rows initialize_demo_data inserts into the rebuilt tables.
DemoYears ==
    <<[name |-> "2024/2025", start_date |-> DateOf["2024-01-01"],
       end_date |-> DateOf["2024-12-31"]]>>

DemoTerms ==
    <<[name |-> "Term 1", start_date |-> DateOf["2024-01-10"],
       end_date |-> DateOf["2024-04-05"], academic_year_id |-> 1]>>

DemoDrivers ==
    <<[name |-> "John Doe", phone |-> "0700123456", license_number |-> "DRV001",
       assigned |-> TRUE],
      [name |-> "Jane Smith", phone |-> "0700234567", license_number |-> "DRV002",
       assigned |-> FALSE]>>

DemoAttendants ==
    <<[name |-> "Samuel Att", phone |-> "0711122233"],
      [name |-> "Grace K", phone |-> "0711223344"]>>

DemoBuses ==
    <<[bus_name |-> "Bus A", capacity |-> 40, driver_id |-> 1, attendant_id |-> 1],
      [bus_name |-> "Bus B", capacity |-> 35, driver_id |-> 2, attendant_id |-> 2]>>

DemoStudents ==
    <<[name |-> "Alice Brown", parent_contact |-> "0700998877", address |-> "Hillview",
       bus_id |-> 1, monthly_rate |-> 50],
      [name |-> "Brian Green", parent_contact |-> "0700887766", address |-> "Westlane",
       bus_id |-> 2, monthly_rate |-> 60],
      [name |-> "Chloe White", parent_contact |-> "0700665544", address |-> "Eastville",
       bus_id |-> 1, monthly_rate |-> 45]>>

DemoPayments ==
    <<[student_id |-> 1, term_id |-> 1, week_number |-> 1, payment_date |-> Today,
       amount_paid |-> 25, balance_carried |-> 25],
      [student_id |-> 2, term_id |-> 1, week_number |-> 1, payment_date |-> Today,
       amount_paid |-> 30, balance_carried |-> 30]>>

\* The tables are rebuilt on the engine, then the demo rows are added to the
\* session and committed by the first set_setting().  The commit also flushes
\* what the session held modified; if that fails nothing catches the error and
\* the program ends with the rebuilt, empty tables.
initialize_demo_data(confirm_in) ==
    /\ running
    /\ IF ~ConfirmsDemo(confirm_in)
       THEN Return("Operation cancelled. No data was modified.")
       ELSE IF FlushBuses(<< >>, sessBus).ok
       THEN /\ years' = DemoYears
            /\ terms' = DemoTerms
            /\ drivers' = DemoDrivers
            /\ attendants' = DemoAttendants
            /\ buses' = DemoBuses
            /\ students' = DemoStudents
            /\ payments' = DemoPayments
            /\ settings' = DemoSettings
            /\ sessBus' = << >>
            /\ msg' = "Demo data initialized successfully!"
            /\ out' = NoOutput
            /\ UNCHANGED running
       ELSE /\ years' = << >>
            /\ terms' = << >>
            /\ drivers' = << >>
            /\ attendants' = << >>
            /\ buses' = << >>
            /\ students' = << >>
            /\ payments' = << >>
            /\ settings' = << >>
            /\ msg' = "Fatal error"
            /\ out' = NoOutput
            /\ sessBus' = << >>
            /\ running' = FALSE

-----------------------------------------------------------------------------
(* list_buses of menus/buses.py and the bus report of menus/reports.py      *)

\* "student_count / capacity * 100" as "{:.1f}" prints it, in tenths of a per
\* cent; dividing by 0 raises ZeroDivisionError, dividing by None TypeError.
Percentage(student_count, capacity) ==
    IF capacity = NULL \/ capacity = 0 THEN [raised |-> TRUE, value |-> 0]
    ELSE [raised |-> FALSE,
          value |-> (2000 * student_count + capacity) \div (2 * capacity)]

\* "len(bus.students) if bus.students else 0"
StudentCount(b) == Cardinality({s \in DOMAIN students : students[s].bus_id = b})

\* "(student_count / bus.capacity * 100) if bus.capacity and bus.capacity > 0
\* else 0", written out once in each of the three functions.
ListUtilization(student_count, capacity) ==
    IF capacity # NULL /\ capacity # 0 /\ capacity > 0
    THEN Percentage(student_count, capacity)
    ELSE [raised |-> FALSE, value |-> 0]

ReportUtilization(student_count, capacity) ==
    IF capacity # NULL /\ capacity # 0 /\ capacity > 0
    THEN Percentage(student_count, capacity)
    ELSE [raised |-> FALSE, value |-> 0]

ExportUtilization(student_count, capacity) ==
    IF capacity # NULL /\ capacity # 0 /\ capacity > 0
    THEN Percentage(student_count, capacity)
    ELSE [raised |-> FALSE, value |-> 0]

\* The handlers read the Bus objects of the session (no flush happens).
list_buses ==
    /\ running
    /\ IF buses = << >>
       THEN Return("No buses found.")
       ELSE LET shown == [b \in DOMAIN buses |->
                            ListUtilization(StudentCount(b), MemBus(b).capacity)]
            IN  IF \E b \in DOMAIN buses : shown[b].raised
                THEN Fatal
                ELSE /\ msg' = "=== List of Buses ==="
                     /\ out' = [screen |-> [b \in DOMAIN buses |-> shown[b].value],
                                file |-> << >>,
                                rows |-> [b \in DOMAIN buses |-> MemBus(b)],
                                total |-> 0]
                     /\ UNCHANGED <<store, sessBus, running>>

\* generate_bus_report, with export_buses_to_csv when the answer is y.
generate_bus_report(export_in) ==
    /\ running
    /\ IF buses = << >>
       THEN Return("No buses found.")
       ELSE LET shown == [b \in DOMAIN buses |->
                            ReportUtilization(StudentCount(b), MemBus(b).capacity)]
                written == [b \in DOMAIN buses |->
                            ExportUtilization(StudentCount(b), MemBus(b).capacity)]
            IN  IF \E b \in DOMAIN buses : shown[b].raised
                THEN Fatal
                ELSE IF export_in \notin {"y", "Y"}
                THEN /\ msg' = "Bus Report:"
                     /\ out' = [screen |-> [b \in DOMAIN buses |-> shown[b].value],
                                file |-> << >>,
                                rows |-> [b \in DOMAIN buses |-> MemBus(b)],
                                total |-> 0]
                     /\ UNCHANGED <<store, sessBus, running>>
                ELSE IF \E b \in DOMAIN buses : written[b].raised
                THEN Fatal
                ELSE /\ msg' = "Report exported to 'bus_report.csv'."
                     /\ out' = [screen |-> [b \in DOMAIN buses |-> shown[b].value],
                                file |-> [b \in DOMAIN buses |-> written[b].value],
                                rows |-> [b \in DOMAIN buses |-> MemBus(b)],
                                total |-> 0]
                     /\ UNCHANGED <<store, sessBus, running>>

\* Python's sum() and "total += x": the amounts of the rows added up one by
\* one from 0.
RECURSIVE SumPaid(_)
SumPaid(ps) ==
    IF ps = {} THEN 0
    ELSE LET p == CHOOSE q \in ps : TRUE
         IN  payments[p].amount_paid + SumPaid(ps \ {p})

\* student.payments, the relationship loaded through payments.student_id.
PaymentsOf(s) == {p \in DOMAIN payments : payments[p].student_id = s}

\* "sum(p.amount_paid for p in student.payments) if student.payments else 0.0"
TotalPayments(s) == IF PaymentsOf(s) # {} THEN SumPaid(PaymentsOf(s)) ELSE 0

\* "total_collected = 0.0; for payment in payments: total_collected +=
\* payment.amount_paid" over the joined query.
TotalCollected == SumPaid(JoinedPayments)

\* Adding a None amount raises TypeError.
StudentSumFails ==
    \E s \in DOMAIN students, p \in DOMAIN payments :
        payments[p].student_id = s /\ payments[p].amount_paid = NULL

\* generate_student_report, with export_students_to_csv when the answer is y.
generate_student_report(export_in) ==
    /\ running
    /\ IF students = << >>
       THEN Return("No students found.")
       ELSE IF StudentSumFails
       THEN Fatal
       ELSE /\ msg' = IF export_in \in {"y", "Y"}
                      THEN "Report exported to 'student_report.csv'."
                      ELSE "Student Report:"
            /\ out' = [screen |-> [s \in DOMAIN students |-> TotalPayments(s)],
                       file |-> IF export_in \in {"y", "Y"}
                                THEN [s \in DOMAIN students |-> TotalPayments(s)]
                                ELSE << >>,
                       rows |-> << >>,
                       total |-> 0]
            /\ UNCHANGED <<store, sessBus, running>>

\* generate_payment_report, with export_payments_to_csv when the answer is y.
generate_payment_report(export_in) ==
    /\ running
    /\ IF JoinedPayments = {}
       THEN Return("No payments found.")
       ELSE IF ListingFails
       THEN Fatal
       ELSE /\ msg' = IF export_in \in {"y", "Y"}
                      THEN "Report exported to 'payment_report.csv'."
                      ELSE "Payment Report:"
            /\ out' = [screen |-> [p \in JoinedPayments |-> payments[p].amount_paid],
                       file |-> IF export_in \in {"y", "Y"}
                                THEN [p \in JoinedPayments |-> payments[p].amount_paid]
                                ELSE << >>,
                       rows |-> << >>,
                       total |-> TotalCollected]
            /\ UNCHANGED <<store, sessBus, running>>

-----------------------------------------------------------------------------
(* The operator.  Each specification starts from the empty database that   *)
(* create_all_tables leaves and lets the operator run the handlers of one  *)
(* part of the menu with answers drawn from the sets below.                *)

CancelAnswers == {"cancel"}
IdAnswers == {"1", "2"}
DateAnswers == {"2024-01-01", "2024-01-10", "2024-04-05"}
ConfirmAnswers == {"y", "n"}
RowAnswers == {"1", "2", "abc"}
WeekAnswers == {"", "1", "21"}
AmountAnswers == {"0", "60", "-5"}

\* The ledger: students, their rates and their payments.
NextLedger ==
    \/ add_academic_year("2024/2025", "2024-01-01", "2024-04-05")
    \/ add_term("1", "Term 1", "2024-01-01", "2024-01-10")
    \/ add_bus("Bus A", "40", "", "")
    \/ add_student("Alice", "0700123456", "Hillview", "50", "")
    \/ \E id \in IdAnswers, rate \in {"25", "cancel"} :
          update_student(id, "", "", "", rate, "")
    \/ \E id \in IdAnswers, confirm \in ConfirmAnswers :
          delete_student(id, confirm)
    \/ \E s \in RowAnswers, w \in WeekAnswers, a \in AmountAnswers :
          add_payment(s, "1", w, a)
    \/ \E id \in RowAnswers, a \in AmountAnswers \cup {""} :
          update_payment(id, a)
    \/ \E id \in RowAnswers, confirm \in {"DELETE", "y"} :
          delete_payment(id, confirm)

SpecLedger == Init /\ [][NextLedger]_vars

\* The fleet: drivers, attendants, buses and the students assigned to them.
NextFleet ==
    \/ \E license \in {"DRV001", "DRV002"} :
          add_driver("John Doe", "0700123456", license)
    \/ add_attendant("Samuel Att", "0711122233")
    \/ \E driver \in {"", "1"}, att \in {"", "1"} :
          add_bus("Bus A", "40", driver, att)
    \/ \E id \in IdAnswers, name \in {"", "Bus B"},
          cap \in {"40", "cancel"}, driver \in {"", "1", "cancel"},
          att \in {"", "1", "cancel"} :
          update_bus(id, name, cap, driver, att)
    \/ \E id \in IdAnswers, confirm \in ConfirmAnswers : delete_bus(id, confirm)
    \/ \E id \in IdAnswers, confirm \in ConfirmAnswers : delete_driver(id, confirm)
    \/ \E id \in IdAnswers, confirm \in ConfirmAnswers : delete_attendant(id, confirm)
    \/ add_student("Alice", "0700123456", "Hillview", "50", "1")

SpecFleet == Init /\ [][NextFleet]_vars

\* The roster: buses and the students riding them, with one attendant so that
\* update_bus reaches its attendant prompt.
RosterNames == {"", "Bob"}
RosterRates == {"25", "cancel"}
RosterBuses == {"", "1", "cancel"}

NextRoster ==
    \/ add_attendant("Samuel Att", "0711122233")
    \/ add_bus("Bus A", "40", "", "")
    \/ \E id \in IdAnswers, name \in {"", "Bus B"}, cap \in {"40", "20"},
          att \in {"", "1", "cancel"} :
          update_bus(id, name, cap, "", att)
    \/ \E bus \in {"", "1"} :
          add_student("Alice", "0700123456", "Hillview", "50", bus)
    \/ \E id \in IdAnswers, name \in RosterNames, rate \in RosterRates,
          bus \in RosterBuses :
          update_student(id, name, "", "", rate, bus)
    \/ \E id \in IdAnswers, confirm \in ConfirmAnswers : delete_bus(id, confirm)

SpecRoster == Init /\ [][NextRoster]_vars

\* The calendar: academic years, their terms, and the payments made in them.
NextCalendar ==
    \/ \E name \in {"2024/2025", "2025/2026"}, end \in {"2024-01-01", "2024-04-05"} :
          add_academic_year(name, "2024-01-01", end)
    \/ \E id \in IdAnswers, end \in {"2024-01-01", "2024-01-10", "2024-04-05"} :
          edit_academic_year(id, "", "2024-01-10", end)
    \/ \E id \in IdAnswers, confirm \in ConfirmAnswers :
          delete_academic_year(id, confirm)
    \/ \E year \in IdAnswers, end \in {"2024-01-01", "2024-01-10"} :
          add_term(year, "Term 1", "2024-01-01", end)
    \/ \E id \in IdAnswers, start \in {"2024-01-01", "2024-04-05"},
          reassign \in ConfirmAnswers, year \in IdAnswers :
          edit_term(id, "", start, "2024-01-10", reassign, year)
    \/ \E id \in IdAnswers, confirm \in ConfirmAnswers : delete_term(id, confirm)
    \/ add_bus("Bus A", "40", "", "")
    \/ add_student("Alice", "0700123456", "Hillview", "50", "")
    \/ \E id \in IdAnswers, confirm \in ConfirmAnswers : delete_student(id, confirm)
    \/ \E s \in IdAnswers, t \in IdAnswers : add_payment(s, t, "1", "25")

SpecCalendar == Init /\ [][NextCalendar]_vars

\* The editing forms whose prompts accept a blank answer to keep a value.
FormIds == {"1", "cancel"}
YearNames == {"", "cancel", "exit"}
YearStarts == {"2024-01-10", "cancel"}
YearEnds == {"2024-04-05", "cancel"}
TermNames == {"Term 2", "cancel"}
TermStarts == {"2024-01-01", "cancel"}
TermEnds == {"2024-01-10", "cancel"}
DriverNames == {"", "cancel"}
DriverPhones == {"0711122233", "cancel"}
DriverLicenses == {"", "cancel"}
AttendantNames == {"Mary Att", "exit"}
AttendantPhones == {"0711122233", "cancel"}

NextForms ==
    \/ add_academic_year("2024/2025", "2024-01-01", "2024-04-05")
    \/ add_term("1", "Term 1", "2024-01-01", "2024-01-10")
    \/ \E id \in FormIds, name \in YearNames, start \in YearStarts, end \in YearEnds :
          edit_academic_year(id, name, start, end)
    \/ \E id \in FormIds, name \in TermNames, start \in TermStarts, end \in TermEnds,
          reassign \in ConfirmAnswers :
          edit_term(id, name, start, end, reassign, "1")
    \/ add_driver("John Doe", "0700123456", "DRV001")
    \/ \E id \in FormIds, name \in DriverNames, phone \in DriverPhones,
          license \in DriverLicenses :
          update_driver(id, name, phone, license)
    \/ add_attendant("Samuel Att", "0700123456")
    \/ \E id \in FormIds, name \in AttendantNames, phone \in AttendantPhones :
          update_attendant(id, name, phone)

SpecForms == Init /\ [][NextForms]_vars

-----------------------------------------------------------------------------
(* Properties.                                                             *)

\* balance_carried of payment row p is max(0, monthly_rate - amount_paid) of
\* the student the row names.
BalanceIsShortfall(p) ==
    LET due == students[payments[p].student_id].monthly_rate - payments[p].amount_paid
    IN  payments[p].balance_carried = IF due < 0 THEN 0 ELSE due

\* C1: right after add_payment succeeds, the row it inserted has
\* balance_carried = max(0, monthly_rate - amount_paid) for the student's
\* current rate; right after update_payment succeeds with a non-blank amount,
\* the row it updated has it too.
C1_BalanceAfterPaymentWrite ==
    [][ /\ msg' = "Payment added successfully!" =>
              /\ DOMAIN payments' \ DOMAIN payments # {}
              /\ \A p \in DOMAIN payments' \ DOMAIN payments : BalanceIsShortfall(p)'
        /\ \A id \in RowAnswers, a \in AmountAnswers :
              msg' = "Payment updated successfully!" /\ update_payment(id, a) =>
                  /\ payments'[IntOf[id]].amount_paid = FloatOf[a]
                  /\ BalanceIsShortfall(IntOf[id])' ]_vars

\* Reached: an update has just succeeded and the ledger holds one payment
\* above the student's rate (balance clamped to 0) and one below it.
C1_Witness ==
    /\ msg = "Payment updated successfully!"
    /\ \E p \in DOMAIN payments, q \in DOMAIN payments :
          /\ payments[p].amount_paid > students[payments[p].student_id].monthly_rate
          /\ payments[p].balance_carried = 0
          /\ payments[q].amount_paid < students[payments[q].student_id].monthly_rate
          /\ payments[q].balance_carried > 0

\* No two payment rows share student, term and a non-null week number.
NoDuplicateWeek ==
    \A p \in DOMAIN payments, q \in DOMAIN payments :
        (/\ p # q
         /\ payments[p].week_number # NULL
         /\ payments[p].student_id = payments[q].student_id
         /\ payments[p].term_id = payments[q].term_id)
        => payments[p].week_number # payments[q].week_number

\* C2: no two payment rows share (student_id, term_id, week_number) with a
\* non-null week number, and an add_payment whose (student, term, week) triple
\* already has a row is refused with the store left as it was.
C2_OnePaymentPerWeek ==
    /\ []NoDuplicateWeek
    /\ [][ \A s \in RowAnswers, w \in WeekAnswers :
              (/\ is_integer(s)
               /\ \E p \in DOMAIN payments :
                     /\ payments[p].student_id = IntOf[s]
                     /\ payments[p].term_id = 1
                     /\ payments[p].week_number = WeekNumber(w))
              => \A a \in AmountAnswers :
                    add_payment(s, "1", w, a) =>
                       /\ msg' = "A payment for this student, term, and week already exists."
                       /\ UNCHANGED store ]_vars

\* Reached: a weekly payment exists and a second add for its triple has just
\* been refused.
C2_Witness ==
    /\ msg = "A payment for this student, term, and week already exists."
    /\ \E p \in DOMAIN payments : payments[p].week_number = 1

\* The fields of a Bus row.
BusFields == {"bus_name", "capacity", "driver_id", "attendant_id"}

\* C3: a cancel at any prompt of a multi-step operation writes nothing: the
\* step that cancels leaves the store as it was, and no field entered before
\* the cancel is persisted by a later commit either.  So outside a successful
\* update_bus no committed Bus changes its name or capacity, and its driver and
\* attendant change only by being cleared.
C3_CancelWritesNothing ==
    [][ /\ msg' = "Operation cancelled." => UNCHANGED store
        /\ msg' # "Bus updated successfully!" =>
              \A b \in DOMAIN buses \cap DOMAIN buses' :
                  /\ buses'[b].bus_name = buses[b].bus_name
                  /\ buses'[b].capacity = buses[b].capacity
                  /\ buses'[b].driver_id \in {buses[b].driver_id, NULL}
                  /\ buses'[b].attendant_id \in {buses[b].attendant_id, NULL} ]_vars

\* C4: writes are atomic per call.  A successful update_student persists all
\* five fields of the row together and a refused or cancelled one persists
\* none; and of the field changes one operation made to a Bus and left
\* uncommitted, a step persists either all or none.
C4_WritesAtomicPerCall ==
    [][ /\ students' # students =>
              \A id \in IdAnswers, name \in RosterNames, rate \in RosterRates,
                 bus \in RosterBuses :
                  update_student(id, name, "", "", rate, bus) =>
                      students' = [students EXCEPT ![IntOf[id]] =
                          [name |-> IF name = "" THEN students[IntOf[id]].name ELSE name,
                           parent_contact |-> students[IntOf[id]].parent_contact,
                           address |-> students[IntOf[id]].address,
                           bus_id |-> IF bus = "" THEN students[IntOf[id]].bus_id
                                      ELSE IntOf[bus],
                           monthly_rate |-> FloatOf[rate]]]
        /\ \A b \in DOMAIN sessBus \cap DOMAIN buses' :
              LET changed == {f \in BusFields : sessBus[b][f] # buses[b][f]}
              IN  \/ \A f \in changed : buses'[b][f] = sessBus[b][f]
                  \/ \A f \in changed : buses'[b][f] = buses[b][f] ]_vars

\* C5: a confirmed delete of academic year y removes, in the one step, year y,
\* exactly the terms of y and exactly the payments of those terms; every other
\* year, term and payment stays as it was and no student is removed.
C5_DeleteYearCascades ==
    [][ msg' = "Academic year deleted successfully." =>
          \E y \in DOMAIN years :
              LET gone_terms == {t \in DOMAIN terms : terms[t].academic_year_id = y}
                  gone_payments == {p \in DOMAIN payments :
                                        payments[p].term_id \in gone_terms}
              IN  /\ years' = [i \in DOMAIN years \ {y} |-> years[i]]
                  /\ terms' = [t \in DOMAIN terms \ gone_terms |-> terms[t]]
                  /\ payments' = [p \in DOMAIN payments \ gone_payments |-> payments[p]]
                  /\ students' = students ]_vars

\* Reached: year 1 has just been deleted while year 2, its term 2 and the
\* payment 2 made in that term are still there and term 1 and payment 1 went.
C5_Witness ==
    /\ msg = "Academic year deleted successfully."
    /\ DOMAIN years = {2}
    /\ DOMAIN terms = {2}
    /\ DOMAIN payments = {2}
    /\ students # << >>

\* C6: deleting a driver (attendant) that buses reference leaves each of those
\* buses in the store with driver_id (attendant_id) null and every other field
\* as it was, and deletes no bus.
C6_DeleteStaffClearsBuses ==
    [][ /\ msg' = "Driver deleted successfully." =>
              /\ DOMAIN buses' = DOMAIN buses
              /\ \A d \in DOMAIN drivers \ DOMAIN drivers', b \in DOMAIN buses :
                    buses[b].driver_id = d =>
                        buses'[b] = [buses[b] EXCEPT !.driver_id = NULL]
        /\ msg' = "Attendant deleted successfully." =>
              /\ DOMAIN buses' = DOMAIN buses
              /\ \A a \in DOMAIN attendants \ DOMAIN attendants', b \in DOMAIN buses :
                    buses[b].attendant_id = a =>
                        buses'[b] = [buses[b] EXCEPT !.attendant_id = NULL] ]_vars

\* Every year and every term starts before it ends.
DatesOrdered ==
    /\ \A y \in DOMAIN years : years[y].start_date < years[y].end_date
    /\ \A t \in DOMAIN terms : terms[t].start_date < terms[t].end_date

\* The handler said the dates are refused, and wrote nothing.
DatesRejected ==
    /\ msg' = "End date must be after start date."
    /\ UNCHANGED <<store, running>>

\* C7: no stored year or term has end_date <= start_date, and an add or edit
\* of a year or term whose resulting end date is not after its start date is
\* refused with the store unchanged.
C7_StartBeforeEnd ==
    /\ []DatesOrdered
    /\ [][ /\ \A name \in {"2024/2025", "2025/2026"}, end \in {"2024-01-01"} :
                 add_academic_year(name, "2024-01-01", end) => DatesRejected
           /\ \A id \in IdAnswers, end \in {"2024-01-01", "2024-01-10"} :
                 IsIdOf(id, years) /\ edit_academic_year(id, "", "2024-01-10", end)
                     => DatesRejected
           /\ \A year \in IdAnswers :
                 IsIdOf(year, years) /\ add_term(year, "Term 1", "2024-01-01", "2024-01-01")
                     => DatesRejected
           /\ \A id \in IdAnswers, reassign \in ConfirmAnswers, year \in IdAnswers :
                 IsIdOf(id, terms)
                   /\ edit_term(id, "", "2024-04-05", "2024-01-10", reassign, year)
                     => DatesRejected ]_vars

\* Reached: a year and a term are stored and an entry with end <= start has
\* just been refused.
C7_Witness ==
    /\ msg = "End date must be after start date."
    /\ years # << >>
    /\ terms # << >>

\* An answer that cancels a prompt.
Cancels(answer) == answer \in {"cancel", "exit"}

\* C8: a cancel or exit at any prompt aborts the operation with no commit and
\* the store unchanged, in particular at the name, start-date and end-date
\* prompts of edit_academic_year and edit_term and at the name, phone and
\* license prompts of update_driver and update_attendant.
C8_CancelAborts ==
    [][ store' # store =>
          /\ \A id \in FormIds, name \in YearNames, start \in YearStarts,
                end \in YearEnds :
                 (Cancels(id) \/ Cancels(name) \/ Cancels(start) \/ Cancels(end))
                     => ~edit_academic_year(id, name, start, end)
          /\ \A id \in FormIds, name \in TermNames, start \in TermStarts,
                end \in TermEnds, reassign \in ConfirmAnswers :
                 (Cancels(id) \/ Cancels(name) \/ Cancels(start) \/ Cancels(end))
                     => ~edit_term(id, name, start, end, reassign, "1")
          /\ \A id \in FormIds, name \in DriverNames, phone \in DriverPhones,
                license \in DriverLicenses :
                 (Cancels(id) \/ Cancels(name) \/ Cancels(phone) \/ Cancels(license))
                     => ~update_driver(id, name, phone, license)
          /\ \A id \in FormIds, name \in AttendantNames, phone \in AttendantPhones :
                 (Cancels(id) \/ Cancels(name) \/ Cancels(phone))
                     => ~update_attendant(id, name, phone) ]_vars

\* Every payment names a stored student and a stored term, every term a
\* stored year.
OwnedRowsHaveOwners ==
    /\ \A p \in DOMAIN payments : /\ payments[p].student_id \in DOMAIN students
                                  /\ payments[p].term_id \in DOMAIN terms
    /\ \A t \in DOMAIN terms : terms[t].academic_year_id \in DOMAIN years

\* C9: in every state each payment's student and term and each term's year
\* exist; deleting a student removes exactly the payments that name it, and
\* deleting a term removes exactly the payments that name it.
C9_OwnedRowsFollowOwner ==
    /\ []OwnedRowsHaveOwners
    /\ [][ /\ msg' = "Student deleted successfully." =>
                 \E s \in DOMAIN students :
                     /\ students' = [i \in DOMAIN students \ {s} |-> students[i]]
                     /\ payments' = [p \in {q \in DOMAIN payments :
                                                payments[q].student_id # s}
                                        |-> payments[p]]
                     /\ terms' = terms
           /\ msg' = "Term deleted successfully." =>
                 \E t \in DOMAIN terms :
                     /\ terms' = [i \in DOMAIN terms \ {t} |-> terms[i]]
                     /\ payments' = [p \in {q \in DOMAIN payments :
                                                payments[q].term_id # t}
                                        |-> payments[p]]
                     /\ students' = students ]_vars

\* Reached: student 1 has just been deleted with its payment 1, while student
\* 2 and its payment 2 are still there.
C9_Witness ==
    /\ msg = "Student deleted successfully."
    /\ DOMAIN students = {2}
    /\ DOMAIN payments = {2}
    /\ payments[2].student_id = 2

\* Every non-null bus, driver and attendant reference names a stored row.
OptionalRefsExist ==
    /\ \A s \in DOMAIN students :
          students[s].bus_id = NULL \/ students[s].bus_id \in DOMAIN buses
    /\ \A b \in DOMAIN buses :
          /\ buses[b].driver_id = NULL \/ buses[b].driver_id \in DOMAIN drivers
          /\ buses[b].attendant_id = NULL \/ buses[b].attendant_id \in DOMAIN attendants

\* C10: deleting a bus leaves each student that referenced it with bus_id null
\* and every other field as it was, removes no payment, and in every state each
\* non-null Student.bus_id, Bus.driver_id and Bus.attendant_id names a stored
\* row.
C10_OptionalRefsStayValid ==
    /\ []OptionalRefsExist
    /\ [][ msg' = "Bus deleted successfully." =>
             \E b \in DOMAIN buses \ DOMAIN buses' :
                 /\ students' = [s \in DOMAIN students |->
                                    IF students[s].bus_id = b
                                    THEN [students[s] EXCEPT !.bus_id = NULL]
                                    ELSE students[s]]
                 /\ payments' = payments ]_vars

\* The store refused the write, the handler said so, and the menu goes on
\* with nothing written and nothing left pending in the session.
RefusedAndRunning ==
    /\ running'
    /\ UNCHANGED store
    /\ sessBus' = << >>

\* C11: an add or edit that collides with a uniqueness constraint of the store
\* (an academic year name, a term name within its year, a bus name) is reported,
\* rolled back, and leaves the program running with the store unchanged.
C11_DuplicateReportedAndRolledBack ==
    [][ /\ \A name \in {"2024/2025", "2025/2026"} :
              (/\ \E y \in DOMAIN years : years[y].name = name
               /\ add_academic_year(name, "2024-01-01", "2024-04-05"))
              => RefusedAndRunning
        /\ \A year \in IdAnswers :
              (/\ IsIdOf(year, years)
               /\ \E t \in DOMAIN terms : /\ terms[t].name = "Term 1"
                                          /\ terms[t].academic_year_id = IntOf[year]
               /\ add_term(year, "Term 1", "2024-01-01", "2024-01-10"))
              => RefusedAndRunning
        /\ (/\ \E b \in DOMAIN buses : buses[b].bus_name = "Bus A"
            /\ add_bus("Bus A", "40", "", ""))
              => RefusedAndRunning ]_vars

\* The week prompt of add_payment: what the operator may type there.
BadWeekAnswers == {"0", "21", "-3", "abc"}

NextWeeks ==
    \/ add_academic_year("2024/2025", "2024-01-01", "2024-04-05")
    \/ add_term("1", "Term 1", "2024-01-01", "2024-01-10")
    \/ add_bus("Bus A", "40", "", "")
    \/ add_student("Alice", "0700123456", "Hillview", "50", "")
    \/ \E s \in IdAnswers, w \in {"", "1", "20"} \cup BadWeekAnswers, a \in {"25", "60"} :
          add_payment(s, "1", w, a)
    \/ \E id \in IdAnswers : delete_payment(id, "DELETE")

SpecWeeks == Init /\ [][NextWeeks]_vars

\* C12: add_payment with a week answer that is neither blank nor an integer in
\* 1..20 reports an error and adds no payment row; only a blank week answer
\* gives a general payment.
C12_BadWeekAddsNothing ==
    [][ \A s \in IdAnswers, w \in BadWeekAnswers, a \in {"25", "60"} :
          add_payment(s, "1", w, a) =>
              /\ payments' = payments
              /\ msg' \in {"Week number must be between 1 and 20.",
                           "Error adding payment",
                           "No students available. Add students first.",
                           "Student not found.",
                           "No terms available. Add terms first."} ]_vars

\* C13: in every reachable state every payment has week_number either null or
\* an integer from 1 to 20.
C13_WeekNullOrInRange ==
    \A p \in DOMAIN payments :
        \/ payments[p].week_number = NULL
        \/ payments[p].week_number \in MinWeek..MaxWeek

\* A general payment and a payment for the last admissible week are both stored.
C13_Witness ==
    /\ \E p \in DOMAIN payments : payments[p].week_number = NULL
    /\ \E p \in DOMAIN payments : payments[p].week_number = MaxWeek

\* The amount prompts of add_payment and update_payment: answers that are
\* negative or not a number.
BadAmountAnswers == {"-5", "abc", "nan"}

NextAmounts ==
    \/ add_academic_year("2024/2025", "2024-01-01", "2024-04-05")
    \/ add_term("1", "Term 1", "2024-01-01", "2024-01-10")
    \/ \E cap \in {"40", "0"} : add_bus("Bus A", cap, "", "")
    \/ \E rate \in {"50", "0"} : add_student("Alice", "0700123456", "Hillview", rate, "")
    \/ update_student("1", "", "", "", "25", "")
    \/ \E w \in {"", "1"}, a \in {"25"} \cup BadAmountAnswers : add_payment("1", "1", w, a)
    \/ \E id \in IdAnswers, a \in {"", "60"} \cup BadAmountAnswers : update_payment(id, a)
    \/ \E id \in IdAnswers : delete_payment(id, "DELETE")

SpecAmounts == Init /\ [][NextAmounts]_vars

\* Every stored amount, balance, rate and capacity is a number that is not negative.
AmountsNonNegative ==
    /\ \A p \in DOMAIN payments : /\ payments[p].amount_paid # NULL
                                  /\ payments[p].amount_paid >= 0
                                  /\ payments[p].balance_carried # NULL
                                  /\ payments[p].balance_carried >= 0
    /\ \A st \in DOMAIN students : students[st].monthly_rate >= 0
    /\ \A b \in DOMAIN buses : buses[b].capacity >= 0

\* C14: every payment has amount_paid >= 0 and balance_carried >= 0, every
\* student monthly_rate >= 0, every bus capacity >= 0; and a payment add or update
\* answered with a negative or non-numeric amount changes nothing in the store.
C14_AmountsNonNegative ==
    /\ []AmountsNonNegative
    /\ [][ \A a \in BadAmountAnswers :
             /\ (\A w \in {"", "1"} : add_payment("1", "1", w, a) => UNCHANGED store)
             /\ (\A id \in IdAnswers : update_payment(id, a) => UNCHANGED store) ]_vars

\* The names the operator gives to years, buses and licenses.
NameYears == {"2024/2025", "2025/2026"}
NameBuses == {"Bus A", "Bus B"}
NameLicenses == {"DRV001", "DRV002"}

NextNames ==
    \/ \E name \in NameYears : add_academic_year(name, "2024-01-01", "2024-04-05")
    \/ \E id \in IdAnswers, name \in NameYears \cup {""} :
          edit_academic_year(id, name, "2024-01-01", "2024-04-05")
    \/ \E year \in IdAnswers : add_term(year, "Term 1", "2024-01-01", "2024-01-10")
    \/ \E id \in IdAnswers, reassign \in {"y", "n"}, year \in IdAnswers :
          edit_term(id, "", "2024-01-01", "2024-01-10", reassign, year)
    \/ \E license \in NameLicenses : add_driver("John Doe", "0700123456", license)
    \/ \E id \in IdAnswers, license \in NameLicenses \cup {""} :
          update_driver(id, "", "0700123456", license)
    \/ \E name \in NameBuses : add_bus(name, "40", "", "")
    \/ \E id \in IdAnswers, name \in NameBuses \cup {""} :
          update_bus(id, name, "40", "", "")

SpecNames == Init /\ [][NextNames]_vars

\* C15: no two academic years share a name, no two terms of one academic year
\* share a name, no two buses share a bus_name and no two drivers share a
\* non-null license_number.
C15_NamesUnique ==
    /\ \A y1, y2 \in DOMAIN years : y1 # y2 => years[y1].name # years[y2].name
    /\ \A t1, t2 \in DOMAIN terms :
          (t1 # t2 /\ terms[t1].academic_year_id = terms[t2].academic_year_id)
              => terms[t1].name # terms[t2].name
    /\ \A b1, b2 \in DOMAIN buses : b1 # b2 => buses[b1].bus_name # buses[b2].bus_name
    /\ \A d1, d2 \in DOMAIN drivers :
          (d1 # d2 /\ drivers[d1].license_number # NONE)
              => drivers[d1].license_number # drivers[d2].license_number

\* Two of each in the store, and the second term has been moved to the other year.
C15_Witness ==
    /\ Cardinality(DOMAIN years) = 2
    /\ Cardinality(DOMAIN terms) = 2
    /\ Cardinality(DOMAIN buses) = 2
    /\ Cardinality(DOMAIN drivers) = 2
    /\ msg = "Term updated successfully."

\* What the operator types into the edit forms: values the add forms take and
\* values they refuse (blank, malformed, out of order, negative, not a number).
UpdateNames == {"", "Jane Smith"}
UpdateStarts == {"2024-01-10", "2024-13-01"}
UpdateEnds == {"2024-04-05", "2024-01-01", "soon"}
UpdatePhones == {"0711122233", "12345"}
UpdateCapacities == {"20", "-3", "abc"}
UpdateRates == {"25", "-5", "abc"}
UpdateAmounts == {"", "60", "-5", "abc"}

NextUpdates ==
    \/ add_academic_year("2024/2025", "2024-01-01", "2024-04-05")
    \/ \E start \in UpdateStarts, end \in UpdateEnds :
          edit_academic_year("1", "", start, end)
    \/ add_term("1", "Term 1", "2024-01-01", "2024-04-05")
    \/ \E start \in UpdateStarts, end \in UpdateEnds :
          edit_term("1", "", start, end, "n", "1")
    \/ add_driver("John Doe", "0700123456", "DRV001")
    \/ \E name \in UpdateNames, phone \in UpdatePhones : update_driver("1", name, phone, "")
    \/ add_bus("Bus A", "40", "", "")
    \/ \E cap \in UpdateCapacities : update_bus("1", "", cap, "", "")
    \/ add_student("Alice", "0700123456", "Hillview", "50", "")
    \/ \E contact \in UpdatePhones \cup {""}, rate \in UpdateRates :
          update_student("1", "", contact, "", rate, "")
    \/ add_payment("1", "1", "1", "25")
    \/ \E amount \in UpdateAmounts : update_payment("1", amount)

SpecUpdates == Init /\ [][NextUpdates]_vars

\* Every stored row has the values its add form takes: a name, ordered dates,
\* a well-formed phone number, a rate, capacity and amount that is not negative.
RowsPassAddRules ==
    /\ \A y \in DOMAIN years : /\ years[y].name # ""
                               /\ years[y].start_date < years[y].end_date
    /\ \A t \in DOMAIN terms : /\ terms[t].name # ""
                               /\ terms[t].start_date < terms[t].end_date
    /\ \A d \in DOMAIN drivers : /\ drivers[d].name # ""
                                 /\ is_phone_number(drivers[d].phone)
                                 /\ drivers[d].license_number # ""
    /\ \A b \in DOMAIN buses : /\ buses[b].bus_name # ""
                               /\ buses[b].capacity >= 0
    /\ \A st \in DOMAIN students :
          /\ students[st].name # ""
          /\ students[st].parent_contact = NONE
               \/ is_phone_number(students[st].parent_contact)
          /\ students[st].monthly_rate >= 0
    /\ \A p \in DOMAIN payments : payments[p].amount_paid >= 0

\* C16: an update cannot store a value that the add of the same entity refuses
\* (an empty name, a malformed date, an end date not after the start date, a
\* negative or non-numeric rate, capacity or amount, a malformed phone number).
C16_UpdateKeepsAddRules ==
    /\ []RowsPassAddRules
    /\ [][ \A amount \in {"-5", "abc"} :
             update_payment("1", amount) =>
                 /\ UNCHANGED store
                 /\ msg' \in {"No payments found.",
                              "Amount must be a non-negative number."} ]_vars

\* Every edit form has written: the dates, the driver, the capacity, the rate
\* and the amount were all changed by an update.
C16_Witness ==
    /\ \E y \in DOMAIN years : years[y].start_date = DateOf["2024-01-10"]
    /\ \E t \in DOMAIN terms : terms[t].start_date = DateOf["2024-01-10"]
    /\ \E d \in DOMAIN drivers : /\ drivers[d].name = "Jane Smith"
                                 /\ drivers[d].phone = "0711122233"
    /\ \E b \in DOMAIN buses : buses[b].capacity = 20
    /\ \E st \in DOMAIN students : /\ students[st].monthly_rate = 25
                                   /\ students[st].parent_contact = "0711122233"
    /\ \E p \in DOMAIN payments : payments[p].amount_paid = 60

\* C17: update_payment answered with a blank amount leaves amount_paid and
\* balance_carried as they were, whatever the student's monthly_rate has become;
\* no update_payment changes a payment's student, term, week_number or
\* payment_date, or adds or removes a payment.
C17_UpdatePaymentFrame ==
    [][ /\ \A id \in RowAnswers :
              (/\ msg' = "Payment updated successfully!"
               /\ update_payment(id, ""))
              => payments' = payments
        /\ \A id \in RowAnswers, amount \in AmountAnswers \cup {""} :
              (/\ msg' = "Payment updated successfully!"
               /\ update_payment(id, amount))
              => /\ DOMAIN payments' = DOMAIN payments
                 /\ \A p \in DOMAIN payments :
                       /\ payments'[p].student_id = payments[p].student_id
                       /\ payments'[p].term_id = payments[p].term_id
                       /\ payments'[p].week_number = payments[p].week_number
                       /\ payments'[p].payment_date = payments[p].payment_date ]_vars

\* An update has just succeeded on a payment whose balance is not the shortfall
\* of the student's present rate: the rate changed and the amount was left blank.
C17_Witness ==
    /\ msg = "Payment updated successfully!"
    /\ \E p \in DOMAIN payments :
          payments[p].balance_carried #
              BalanceCarried(students[payments[p].student_id].monthly_rate,
                             payments[p].amount_paid)

\* The capacities the operator gives a bus and the export answers.
BusCapacities == {"0", "1", "2"}
ExportAnswers == {"y", "n"}

NextBuses ==
    \/ \E name \in NameBuses, cap \in BusCapacities : add_bus(name, cap, "", "")
    \/ \E id \in IdAnswers, cap \in BusCapacities : update_bus(id, "", cap, "", "")
    \/ \E bus \in IdAnswers \cup {""} :
          add_student("Alice", "0700123456", "Hillview", "50", bus)
    \/ \E id \in IdAnswers, bus \in IdAnswers \cup {""} :
          update_student(id, "", "", "", "50", bus)
    \/ list_buses
    \/ \E export \in ExportAnswers : generate_bus_report(export)

SpecBuses == Init /\ [][NextBuses]_vars

\* The messages with which the bus listing and the bus report end.
ListingShown ==
    {"=== List of Buses ===", "Bus Report:", "Report exported to 'bus_report.csv'."}

\* C18: the bus listing, the bus report and its export give utilization 0 for
\* every bus whose capacity is 0 or null, whatever the number of students on
\* it, and none of them ends in a division error.
C18_ZeroCapacityIsZeroUtilization ==
    /\ \A student_count \in 0..MaxStudents, capacity \in {0, NULL} :
          /\ ListUtilization(student_count, capacity) = [raised |-> FALSE, value |-> 0]
          /\ ReportUtilization(student_count, capacity) = [raised |-> FALSE, value |-> 0]
          /\ ExportUtilization(student_count, capacity) = [raised |-> FALSE, value |-> 0]
    /\ [][ /\ (buses # << >> /\ (list_buses \/ \E export \in ExportAnswers :
                                                  generate_bus_report(export)))
                 => /\ running'
                    /\ msg' \in ListingShown
           /\ msg' \in ListingShown =>
                 \A b \in DOMAIN buses :
                    buses[b].capacity = 0 =>
                       /\ out'.screen[b] = 0
                       /\ out'.file # << >> => out'.file[b] = 0 ]_vars

\* The report was exported with a student on a bus of capacity 0.
C18_Witness ==
    /\ msg = "Report exported to 'bus_report.csv'."
    /\ \E b \in DOMAIN buses : /\ buses[b].capacity = 0
                               /\ StudentCount(b) >= 1
                               /\ out.screen[b] = 0
                               /\ out.file[b] = 0

\* C19: for a bus with capacity > 0 the listing, the report and the export all
\* give student count / capacity * 100 (40 of 40 is 100.0, 41 of 40 is 102.5);
\* a student is assigned to a bus however full it is, so the figure can pass 100.
C19_UtilizationIsCountOverCapacity ==
    /\ ListUtilization(40, 40).value = 1000 /\ ListUtilization(41, 40).value = 1025
    /\ ReportUtilization(40, 40).value = 1000 /\ ReportUtilization(41, 40).value = 1025
    /\ ExportUtilization(40, 40).value = 1000 /\ ExportUtilization(41, 40).value = 1025
    /\ [][ /\ msg' \in ListingShown =>
                 \A b \in DOMAIN buses :
                    buses[b].capacity > 0 =>
                       /\ out'.screen[b] * buses[b].capacity = 1000 * StudentCount(b)
                       /\ out'.file # << >> => out'.file[b] = out'.screen[b]
           /\ \A bus \in IdAnswers :
                 (/\ IsIdOf(bus, buses)
                  /\ StudentCount(IntOf[bus]) >= buses[IntOf[bus]].capacity
                  /\ add_student("Alice", "0700123456", "Hillview", "50", bus))
                 => /\ msg' = "Student added successfully."
                    /\ \E st \in DOMAIN students' \ DOMAIN students :
                          students'[st].bus_id = IntOf[bus] ]_vars

\* The report was exported with two students on a bus of capacity 1: 200.0 %.
C19_Witness ==
    /\ msg = "Report exported to 'bus_report.csv'."
    /\ \E b \in DOMAIN buses : /\ buses[b].capacity = 1
                               /\ StudentCount(b) = 2
                               /\ out.screen[b] = 2000
                               /\ out.file[b] = 2000

\* What the operator answers to the confirmation prompts: the token, the token
\* in another case, and a refusal.
WipeAnswers == {"WIPE", "wipe", "n"}
DemoAnswers == {"YES", "yes", "n"}
DeleteAnswers == {"DELETE", "delete", "y"}
YesNoAnswers == {"y", "Y", "n"}

NextConfirm ==
    \/ \E confirm \in DemoAnswers : initialize_demo_data(confirm)
    \/ \E confirm \in WipeAnswers : wipe_all_data(confirm)
    \/ \E id \in IdAnswers, confirm \in DeleteAnswers : delete_payment(id, confirm)
    \/ \E confirm \in YesNoAnswers : delete_student("1", confirm)
    \/ \E confirm \in YesNoAnswers : delete_bus("1", confirm)
    \/ \E confirm \in YesNoAnswers : delete_driver("1", confirm)
    \/ \E confirm \in YesNoAnswers : delete_attendant("1", confirm)
    \/ \E confirm \in YesNoAnswers : delete_term("1", confirm)
    \/ \E confirm \in YesNoAnswers : delete_academic_year("1", confirm)

SpecConfirm == Init /\ [][NextConfirm]_vars

\* C20: the store changes under a delete, a wipe or the demo data load only
\* when the operator typed the token of that operation: DELETE for
\* delete_payment, WIPE for wipe_all_data, YES for initialize_demo_data, y for
\* the other deletes.  Any other answer leaves the store unchanged.
C20_OnlyTheTokenConfirms ==
    [][ /\ \A confirm \in DemoAnswers \ {"YES"} :
              initialize_demo_data(confirm) => UNCHANGED store
        /\ \A confirm \in WipeAnswers \ {"WIPE"} :
              wipe_all_data(confirm) => UNCHANGED store
        /\ \A id \in IdAnswers, confirm \in DeleteAnswers \ {"DELETE"} :
              delete_payment(id, confirm) => UNCHANGED store
        /\ \A confirm \in YesNoAnswers \ {"y"} :
              /\ delete_student("1", confirm) => UNCHANGED store
              /\ delete_bus("1", confirm) => UNCHANGED store
              /\ delete_driver("1", confirm) => UNCHANGED store
              /\ delete_attendant("1", confirm) => UNCHANGED store
              /\ delete_term("1", confirm) => UNCHANGED store
              /\ delete_academic_year("1", confirm) => UNCHANGED store ]_vars

NextListing ==
    \/ add_driver("John Doe", "0700123456", "DRV001")
    \/ add_bus("Bus A", "40", "", "")
    \/ \E id \in IdAnswers, name \in {"", "Bus B"}, cap \in {"40", "20"},
          driver \in {"", "1", "cancel"} : update_bus(id, name, cap, driver, "")
    \/ delete_driver("1", "y")
    \/ list_buses
    \/ \E export \in ExportAnswers : generate_bus_report(export)

SpecListing == Init /\ [][NextListing]_vars

\* C21: the bus name, capacity, driver and attendant that list_buses and
\* generate_bus_report show are the committed values of the store, also after
\* operations that were cancelled or failed.
C21_ListingShowsTheStore ==
    msg \in ListingShown => out.rows = buses

NextCrash ==
    \/ add_academic_year("2024/2025", "2024-01-01", "2024-04-05")
    \/ delete_academic_year("1", "y")
    \/ add_driver("John Doe", "0700123456", "DRV001")
    \/ add_bus("Bus A", "40", "", "")
    \/ \E cap \in {"40", "20"}, driver \in {"", "cancel"} :
          update_bus("1", "", cap, driver, "")
    \/ \E confirm \in {"YES", "n"} : initialize_demo_data(confirm)
    \/ \E confirm \in {"WIPE", "n"} : wipe_all_data(confirm)

SpecCrash == Init /\ [][NextCrash]_vars

\* C22: a failure no handler deals with is reported by main() and ends the
\* program; nothing runs after that, and the store is the one the failing
\* operation found.
C22_FatalExitKeepsStore ==
    [][ /\ running
        /\ ~running' => /\ msg' = "Fatal error"
                        /\ UNCHANGED store ]_vars

\* C23: in every edit form a blank answer at a field prompt keeps the field and
\* lets the form go on, so a form answered with blanks only can be completed
\* and leaves the row as it was; this covers the dates of edit_academic_year
\* and edit_term, the capacity of update_bus, the rate of update_student and
\* the phone of update_driver.
C23_BlankKeepsEveryField ==
    running =>
        /\ 1 \in DOMAIN years =>
              ENABLED (/\ edit_academic_year("1", "", "", "")
                       /\ msg' = "Academic year updated successfully."
                       /\ years' = years)
        /\ 1 \in DOMAIN terms =>
              ENABLED (/\ edit_term("1", "", "", "", "", "1")
                       /\ msg' = "Term updated successfully."
                       /\ terms' = terms)
        /\ 1 \in DOMAIN drivers =>
              ENABLED (/\ update_driver("1", "", "", "")
                       /\ msg' = "Driver updated successfully!"
                       /\ drivers' = drivers)
        /\ 1 \in DOMAIN buses =>
              ENABLED (/\ update_bus("1", "", "", "", "")
                       /\ msg' = "Bus updated successfully!"
                       /\ buses' = buses)
        /\ 1 \in DOMAIN students =>
              ENABLED (/\ update_student("1", "", "", "", "", "")
                       /\ msg' = "Student updated successfully."
                       /\ students' = students)

\* C24: a driver's assigned flag is true exactly when some bus references the
\* driver.
C24_AssignedFollowsBuses ==
    \A d \in DOMAIN drivers :
        drivers[d].assigned <=> \E b \in DOMAIN buses : buses[b].driver_id = d

\* C25: update_student changes only the selected student row; every payment
\* (amount_paid and balance_carried included), every other student and every
\* other table stay as they were.
C25_UpdateStudentFrame ==
    [][ msg' = "Student updated successfully." =>
           \A id \in IdAnswers, name \in RosterNames, rate \in RosterRates,
              bus \in RosterBuses :
               update_student(id, name, "", "", rate, bus) =>
                   /\ payments' = payments
                   /\ DOMAIN students' = DOMAIN students
                   /\ \A st \in DOMAIN students \ {IntOf[id]} : students'[st] = students[st]
                   /\ UNCHANGED <<years, terms, drivers, attendants, buses>> ]_vars

\* No two general payments (week_number null) share student and term.
OneGeneralPayment ==
    \A p \in DOMAIN payments, q \in DOMAIN payments :
        (/\ p # q
         /\ payments[p].week_number = NULL
         /\ payments[q].week_number = NULL
         /\ payments[p].student_id = payments[q].student_id)
        => payments[p].term_id # payments[q].term_id

\* C26: a (student, term) pair has at most one general payment, and add_payment
\* with a blank week for a pair that already has one is refused and adds no row.
C26_OneGeneralPaymentPerPair ==
    /\ []OneGeneralPayment
    /\ [][ msg' # "Payment added successfully!" \/
           \A s \in RowAnswers, a \in AmountAnswers :
              add_payment(s, "1", "", a) =>
                  ~\E p \in DOMAIN payments : /\ payments[p].student_id = IntOf[s]
                                              /\ payments[p].term_id = 1
                                              /\ payments[p].week_number = NULL ]_vars

\* A second general payment for the pair has just been refused: only general
\* payments are in the store.
C26_Witness ==
    /\ msg = "A payment for this student, term, and week already exists."
    /\ payments # << >>
    /\ \A p \in DOMAIN payments : payments[p].week_number = NULL

\* The reports: two students, their payments and the totals printed for them.
NextReports ==
    \/ add_academic_year("2024/2025", "2024-01-01", "2024-04-05")
    \/ add_term("1", "Term 1", "2024-01-01", "2024-01-10")
    \/ add_bus("Bus A", "40", "", "")
    \/ add_attendant("Samuel Att", "0711122233")
    \/ update_bus("1", "", "20", "", "cancel")
    \/ \E bus \in {"", "1"} :
          add_student("Alice", "0700123456", "Hillview", "50", bus)
    \/ \E s \in IdAnswers, w \in {"", "1"}, a \in {"25", "60", "nan"} :
          add_payment(s, "1", w, a)
    \/ \E id \in IdAnswers : delete_payment(id, "DELETE")
    \/ delete_student("1", "y")
    \/ \E export \in ExportAnswers : generate_student_report(export)
    \/ \E export \in ExportAnswers : generate_payment_report(export)

SpecReports == Init /\ [][NextReports]_vars

StudentReportShown == {"Student Report:", "Report exported to 'student_report.csv'."}
PaymentReportShown == {"Payment Report:", "Report exported to 'payment_report.csv'."}

\* C27: the Total Collected of the payment report is the sum of amount_paid
\* over all Payment rows; each student's Total Paid in the student report is
\* the sum of amount_paid over that student's payments, 0 when there are none;
\* and wherever the amounts are numbers, the per-student totals add up to
\* Total Collected.
C27_ReportTotals ==
    /\ msg \in PaymentReportShown => out.total = SumPaid(DOMAIN payments)
    /\ msg \in StudentReportShown =>
          /\ DOMAIN out.screen = DOMAIN students
          /\ \A s \in DOMAIN students :
                out.screen[s] =
                    SumPaid({p \in DOMAIN payments : payments[p].student_id = s})
    /\ (\A p \in DOMAIN payments : payments[p].amount_paid # NULL) =>
          LET RECURSIVE SumTotals(_)
              SumTotals(ss) ==
                  IF ss = {} THEN 0
                  ELSE LET s == CHOOSE t \in ss : TRUE
                       IN  TotalPayments(s) + SumTotals(ss \ {s})
          IN  SumTotals(DOMAIN students) = TotalCollected

\* The student report has just shown 85 for a student with two payments and 0
\* for a student with none.
C27_Witness ==
    /\ msg \in StudentReportShown
    /\ \E s, t \in DOMAIN students :
          /\ out.screen[s] = 85
          /\ out.screen[t] = 0
          /\ Cardinality(PaymentsOf(s)) = 2
          /\ PaymentsOf(t) = {}

\* The settings: the program is started, configured, wiped and left, again
\* and again, on a database file that may already hold settings.
Days == {DateOf["2024-01-10"], DateOf["2024-04-05"]}

InitSettings ==
    /\ years = << >>
    /\ terms = << >>
    /\ drivers = << >>
    /\ attendants = << >>
    /\ buses = << >>
    /\ students = << >>
    /\ payments = << >>
    /\ \E last_run \in {NONE, "", "yesterday", "2024-01-01", "2024-01-10"},
          flag \in {NONE, "true", "false", "False"} :
          settings = (IF last_run = NONE THEN << >>
                      ELSE <<[key |-> "last_run_date", value |-> last_run]>>)
                     \o (IF flag = NONE THEN << >>
                         ELSE <<[key |-> "day_detection_enabled", value |-> flag]>>)
    /\ sessBus = << >>
    /\ msg = ""
    /\ running = FALSE
    /\ out = NoOutput

RateSettingAnswers == {"25", "nan", "-5", "abc"}
PathAnswers == {"", "out/"}
ToggleAnswers == {"y", "n", "x"}

NextSettings ==
    \/ \E today \in Days : main(today)
    \/ exit_program
    \/ \E rate \in RateSettingAnswers : configure_system_settings("1", rate)
    \/ \E path \in PathAnswers : configure_system_settings("2", path)
    \/ \E toggle \in ToggleAnswers : configure_system_settings("3", toggle)
    \/ configure_system_settings("9", "")
    \/ wipe_all_data("WIPE")
    \/ add_bus("Bus A", "40", "", "")
    \/ update_bus("1", "", "20", "cancel", "")

SpecSettings == InitSettings /\ [][NextSettings]_vars

\* The value stored under a key, NONE when the key has no row.
Stored(st, key) ==
    IF \E i \in DOMAIN st : st[i].key = key
    THEN st[CHOOSE i \in DOMAIN st : st[i].key = key].value
    ELSE NONE

SettingKeys ==
    {"default_monthly_rate", "csv_export_path", "day_detection_enabled", "last_run_date"}

\* set_setting(key, value) has run and the value read back is text: that
\* value, and every other key as it was.
WasSet(key, text) ==
    /\ get_setting(key, NONE)' = text
    /\ \A k \in SettingKeys \ {key} : Stored(settings', k) = Stored(settings, k)

\* C28: set_setting is an upsert.  After set_setting(key, value) get_setting(key)
\* returns str(value) and every other key has the value it had; the table never
\* holds two rows of one key; and get_setting on a key without a row returns
\* the default it was given and writes nothing.
C28_SetSettingUpserts ==
    /\ [](\A i, j \in DOMAIN settings : settings[i].key = settings[j].key => i = j)
    /\ [][ /\ msg' = "Default monthly rate updated successfully." =>
                 \A rate \in RateSettingAnswers :
                     configure_system_settings("1", rate) =>
                         WasSet("default_monthly_rate",
                                IF rate = "25" THEN "25.0" ELSE "nan")
           /\ msg' = "CSV export path updated successfully." =>
                 \A path \in PathAnswers :
                     configure_system_settings("2", path) =>
                         WasSet("csv_export_path", path)
           /\ msg' = "Day detection enabled." => WasSet("day_detection_enabled", "true")
           /\ msg' = "Day detection disabled." => WasSet("day_detection_enabled", "false")
           /\ msg' = "Invalid choice." =>
                 /\ UNCHANGED store
                 /\ Stored(settings, "default_monthly_rate") = NONE =>
                       out'.screen[1] = "Not set"
                 /\ Stored(settings, "csv_export_path") = NONE =>
                       out'.screen[2] = "Not set" ]_vars

\* The rate has just been set to 25.0 in a table that holds the three other
\* keys, each once.
C28_Witness ==
    /\ msg = "Default monthly rate updated successfully."
    /\ Stored(settings, "default_monthly_rate") = "25.0"
    /\ Stored(settings, "csv_export_path") = "out/"
    /\ Stored(settings, "day_detection_enabled") = "false"
    /\ Stored(settings, "last_run_date") = "2024-04-05"
    /\ Cardinality(DOMAIN settings) = 4

\* The notification is what display_day_passed_notification prints when
\* check_day_passed returned True.
Notified == msg' = "=== Day Passed Notification ==="

\* C29: at a start of the program on day today, with day detection enabled
\* (no flag stored, or the flag 'true'): check_day_passed returns True exactly
\* when the stored last_run_date is a valid date strictly earlier than today,
\* and then last_run_date becomes today; a missing or malformed last_run_date
\* becomes today and False is returned; with last_run_date already today
\* (a second call on that day) False is returned and nothing changes.  With
\* the flag 'false' last_run_date stays as it is.
C29_DayPassedOncePerDay ==
    [][ (~running /\ running') =>
          \A today \in Days :
              main(today) =>
                  LET last_run == Stored(settings, "last_run_date")
                      flag == Stored(settings, "day_detection_enabled")
                      earlier == /\ last_run \in {"2024-01-01", "2024-01-10", "2024-04-05"}
                                 /\ DateOf[last_run] < today
                      others == \A k \in SettingKeys \ {"last_run_date"} :
                                    Stored(settings', k) = Stored(settings, k)
                  IN  /\ flag \in {NONE, "true"} =>
                          /\ Notified <=> earlier
                          /\ earlier =>
                                Stored(settings', "last_run_date") = DateStr(today)
                          /\ last_run \in {NONE, "", "yesterday"} =>
                                /\ Stored(settings', "last_run_date") = DateStr(today)
                                /\ ~Notified
                          /\ last_run = DateStr(today) =>
                                /\ ~Notified
                                /\ UNCHANGED store
                          /\ others
                      /\ flag = "false" =>
                          /\ Stored(settings', "last_run_date") = last_run
                          /\ ~Notified ]_vars

\* The program has been started on 2024-04-05 with an earlier date stored and
\* the feature enabled by its flag: the notification is shown and the stored
\* date is that day.
C29_Witness ==
    /\ msg = "=== Day Passed Notification ==="
    /\ running
    /\ Stored(settings, "last_run_date") = "2024-04-05"
    /\ Stored(settings, "day_detection_enabled") = "true"

\* C30: delete_payment removes exactly the selected payment and leaves every
\* other payment, every student and every term as it was; delete_student
\* removes the student and the student's payments, and leaves every other
\* student and payment, every term and the student's bus as they were.
C30_DeleteFrames ==
    [][ /\ msg' = "Payment deleted successfully." =>
              \E p \in DOMAIN payments :
                  /\ payments' = [q \in DOMAIN payments \ {p} |-> payments[q]]
                  /\ students' = students
                  /\ terms' = terms
        /\ msg' = "Student deleted successfully." =>
              \E s \in DOMAIN students :
                  LET gone == {p \in DOMAIN payments : payments[p].student_id = s}
                  IN  /\ students' = [t \in DOMAIN students \ {s} |-> students[t]]
                      /\ payments' = [q \in DOMAIN payments \ gone |-> payments[q]]
                      /\ terms' = terms
                      /\ students[s].bus_id # NULL =>
                            /\ students[s].bus_id \in DOMAIN buses'
                            /\ buses'[students[s].bus_id] = buses[students[s].bus_id] ]_vars

====
